---- MODULE Spec2Model ----
(***************************************************************************)
(* Job Centre (src/sol-py/job-centre/sol.py): the job store               *)
(* (JobQueueServer) and the per-connection handlers (ClientHandler) that  *)
(* run as asyncio tasks on one event loop.  A step of the model is what   *)
(* one task does between two suspension points.                           *)
(***************************************************************************)
EXTENDS Integers, Sequences, FiniteSets, TLC

\* ------------------------------------------------------------------ bounds
\* Job Centre
\* Spec: every operation of two connections, over few jobs
MaxJobs == 1
MaxTie == 1
\* LifeSpec: one put, and the pushes of the job into its heap
LMaxJobs == 1
LMaxTie == 2
\* WakeSpec: two jobs among suspended gets
WMaxJobs == 2
WMaxTie == 2
\* QueueSpec: the heaps, over more jobs, without suspended gets
QMaxJobs == 3
QMaxTie == 3

\* RequestSpec: whole request lines of two connections
RMaxJobs == 2
RMaxTie == 2

\* LRCP
\* LrcpSpec: the most bytes a session accepts from its peer
MaxStream == 3

Clients == {1, 2}
None == 0
QueueNames == {"", "q"}
Priorities == {0, 1}
Payloads == {"p"}
QueueLists == {<<"">>, <<"q">>, <<"", "q">>, <<"q", "">>}
\* the queue lists and the priority of the requests of Spec
WaitLists == {<<"">>, <<"q">>, <<"q", "">>}
WaitPriorities == {0}
\* the connection QueueSpec drives
QClients == {1}

VARIABLES
    id_counter,    \* JobQueueServer.id_counter: the id the next put returns
    tie_breaker,   \* JobQueueServer.tie_breaker: the next insertion sequence
    jobs,          \* keys of JobQueueServer.jobs
    job_objs,      \* every Job object ever constructed, by id
    queues,        \* JobQueueServer.queues: queue name -> heap entries
    waiters,       \* JobQueueServer.waiters: queue name -> set of futures
    future,        \* the future of each handler's suspended get
    must_cancel,   \* asyncio Task._must_cancel of each handler task
    get_queues,    \* local `queues` of each handler's suspended handle_get
    pc,            \* where each handler task is: "idle", "waiting", "closed"
    eof,           \* the peer of each connection has closed it
    working_jobs,  \* ClientHandler.working_jobs
    resp,          \* what the last step wrote to its connection, NoResp if nothing
    sessions,      \* LRCPServer.sessions: the sessions in insertion order
    out,           \* the datagrams the last iteration of LRCPServer.run sent
    peer,          \* the peer of session 1: its state, what was acknowledged to
                   \* it and the bytes it has assembled
    peer_out,      \* the datagrams the peer sent last
    destroyed      \* a session has been removed from LRCPServer.sessions

vars == <<id_counter, tie_breaker, jobs, job_objs, queues, waiters, future,
          must_cancel, get_queues, pc, eof, working_jobs, resp>>
peer_vars == <<peer, peer_out, destroyed>>
lrcp_vars == <<sessions, out, peer_vars>>
all_vars == <<vars, lrcp_vars>>

\* ------------------------------------------------------------- data shapes
Job(job_id, priority, queue_name, payload) ==
    [id |-> job_id, priority |-> priority, queue_name |-> queue_name,
     payload |-> payload, is_deleted |-> FALSE, worker |-> None]

NoFuture == [state |-> "none", job |-> None]
PendingFuture == [state |-> "pending", job |-> None]

NoResp ==
    [request |-> "none", status |-> "none", id |-> 0,
     pri |-> 0, queue |-> "", job |-> ""]

\* {"status": status} (with "id" for a put) as written by send_json
Response(request, status, id) ==
    [request |-> request, status |-> status, id |-> id,
     pri |-> 0, queue |-> "", job |-> ""]

\* Job.to_json plus status ok
ToJson(job) ==
    [request |-> "get", status |-> "ok", id |-> job.id,
     pri |-> job.priority, queue |-> job.queue_name, job |-> job.payload]

\* The store and the per-handler fields the store's methods touch.
Store ==
    [id_counter |-> id_counter, tie_breaker |-> tie_breaker, jobs |-> jobs,
     job_objs |-> job_objs, queues |-> queues, waiters |-> waiters,
     future |-> future, working_jobs |-> working_jobs]

SetStore(st) ==
    \E s \in {st} :
        /\ id_counter' = s.id_counter
        /\ tie_breaker' = s.tie_breaker
        /\ jobs' = s.jobs
        /\ job_objs' = s.job_objs
        /\ queues' = s.queues
        /\ waiters' = s.waiters
        /\ future' = s.future
        /\ working_jobs' = s.working_jobs

\* d[k] = v, creating the key when absent
DictSet(d, k, v) == (k :> v) @@ d
\* del d[k]
DictDel(d, k) == [x \in DOMAIN d \ {k} |-> d[x]]

\* ------------------------------------------------------------ heap (heapq)
\* Entries are <<-priority, insertion order, job id>>; heapq keeps the
\* smallest entry at pq[0] and heappop removes it.
EntryLess(a, b) == a[1] < b[1] \/ (a[1] = b[1] /\ a[2] < b[2])
HeapTop(pq) == CHOOSE e \in pq : \A o \in pq \ {e} : EntryLess(e, o)
HeapPop(pq) == pq \ {HeapTop(pq)}

\* ---------------------------------------------------------- JobQueueServer
\* mutant: the priority goes into the heap entry without the inversion
PushToQueueNotInverted(st, j) ==
    LET q == st.job_objs[j].queue_name
        pq == IF q \in DOMAIN st.queues THEN st.queues[q] ELSE {}
        entry == <<st.job_objs[j].priority, st.tie_breaker, j>>
    IN  [st EXCEPT !.queues = DictSet(st.queues, q, pq \cup {entry}),
                   !.tie_breaker = @ + 1]

\* mutant: the insertion order goes into the heap entry negated
PushToQueueNewestFirst(st, j) ==
    LET q == st.job_objs[j].queue_name
        pq == IF q \in DOMAIN st.queues THEN st.queues[q] ELSE {}
        entry == <<-st.job_objs[j].priority, -st.tie_breaker, j>>
    IN  [st EXCEPT !.queues = DictSet(st.queues, q, pq \cup {entry}),
                   !.tie_breaker = @ + 1]

PushToQueue(st, j) ==
    LET q == st.job_objs[j].queue_name
        pq == IF q \in DOMAIN st.queues THEN st.queues[q] ELSE {}
        entry == <<-st.job_objs[j].priority, st.tie_breaker, j>>
    IN  [st EXCEPT !.queues = DictSet(st.queues, q, pq \cup {entry}),
                   !.tie_breaker = @ + 1]

FutureDone(st, f) == st.future[f].state # "pending"

\* mutant: the popped future gets the job whether it is done or not
NotifyWaitersAnyFuture(st, j) ==
    LET q == st.job_objs[j].queue_name IN
    IF q \notin DOMAIN st.waiters \/ st.waiters[q] = {}
    THEN {[st |-> st, handed |-> FALSE]}
    ELSE {[st |-> [st EXCEPT
                     !.future[f] = [state |-> "result", job |-> j],
                     !.waiters = IF st.waiters[q] \ {f} = {}
                                 THEN DictDel(st.waiters, q)
                                 ELSE [st.waiters EXCEPT ![q] = @ \ {f}]],
            handed |-> TRUE] : f \in st.waiters[q]}

\* The outcomes of _notify_waiters: set.pop() takes the futures of the set in
\* an arbitrary order, so any set D of finished futures may be popped before
\* the live future f that receives the job.
NotifyWaiters(st, j) ==
    LET q == st.job_objs[j].queue_name IN
    IF q \notin DOMAIN st.waiters
    THEN {[st |-> st, handed |-> FALSE]}
    ELSE LET W == st.waiters[q]
             live == {f \in W : ~FutureDone(st, f)}
             done == W \ live
         IN  IF live = {}
             THEN {[st |-> [st EXCEPT !.waiters[q] = {}], handed |-> FALSE]}
             ELSE {[st |-> [st EXCEPT
                       !.future[f] = [state |-> "result", job |-> j],
                       !.waiters = IF W \ (D \cup {f}) = {}
                                   THEN DictDel(st.waiters, q)
                                   ELSE [st.waiters EXCEPT ![q] = W \ (D \cup {f})]],
                    handed |-> TRUE] : f \in live, D \in SUBSET done}

RequeueOutcomes(st, j) ==
    {IF o.handed THEN o.st ELSE PushToQueue(o.st, j) : o \in NotifyWaiters(st, j)}

\* mutant: the id of a deleted job is given out again
ServerPutReusesId(st, priority, queue_name, payload) ==
    LET gone == {j \in DOMAIN st.job_objs : st.job_objs[j].is_deleted}
        job_id == IF gone # {} THEN CHOOSE j \in gone : TRUE ELSE st.id_counter
        st1 == [st EXCEPT !.id_counter = @ + 1,
                          !.job_objs = DictSet(@, job_id, Job(job_id, priority, queue_name, payload)),
                          !.jobs = @ \cup {job_id}]
    IN  {[st |-> s, id |-> job_id] : s \in RequeueOutcomes(st1, job_id)}

ServerPut(st, priority, queue_name, payload) ==
    LET job_id == st.id_counter
        st1 == [st EXCEPT !.id_counter = @ + 1,
                          !.job_objs = DictSet(@, job_id, Job(job_id, priority, queue_name, payload)),
                          !.jobs = @ \cup {job_id}]
    IN  {[st |-> s, id |-> job_id] : s \in RequeueOutcomes(st1, job_id)}


IsStale(st, e) == st.job_objs[e[3]].is_deleted \/ st.job_objs[e[3]].worker # None

\* while pq and (pq[0][2].is_deleted or pq[0][2].worker is not None): heappop
RECURSIVE CleanTop(_, _)
CleanTop(st, pq) ==
    IF pq # {} /\ IsStale(st, HeapTop(pq)) THEN CleanTop(st, HeapPop(pq)) ELSE pq

\* Python truthiness of best_queue, <<>> standing for None and <<name>> for
\* a queue name: None and the empty string are both false.
Truthy(best_queue) == best_queue # <<>> /\ best_queue[1] # ""

\* The for loop of get_nowait from index i on.  best_priority starts at -1
\* for -inf: handle_put admits no priority below 0.
RECURSIVE ScanQueues(_, _, _, _, _)
ScanQueues(st, queue_names, i, best_queue, best_priority) ==
    IF i > Len(queue_names)
    THEN [st |-> st, best_queue |-> best_queue]
    ELSE LET q_name == queue_names[i] IN
         IF q_name \notin DOMAIN st.queues \/ st.queues[q_name] = {}
         THEN ScanQueues(st, queue_names, i + 1, best_queue, best_priority)
         ELSE LET pq == CleanTop(st, st.queues[q_name])
                  st1 == [st EXCEPT !.queues[q_name] = pq]
              IN  IF pq = {}
                  THEN ScanQueues(st1, queue_names, i + 1, best_queue, best_priority)
                  ELSE LET current_pri == -HeapTop(pq)[1] IN
                       IF current_pri > best_priority
                       THEN ScanQueues(st1, queue_names, i + 1, <<q_name>>, current_pri)
                       ELSE ScanQueues(st1, queue_names, i + 1, best_queue, best_priority)

\* mutant: the job at the top of the best queue is returned and not popped
ServerGetNowaitKeepsTop(st, queue_names) ==
    LET r == ScanQueues(st, queue_names, 1, <<>>, -1) IN
    IF Truthy(r.best_queue)
    THEN [st |-> r.st, job |-> HeapTop(r.st.queues[r.best_queue[1]])[3]]
    ELSE [st |-> r.st, job |-> None]

ServerGetNowait(st, queue_names) ==
    LET r == ScanQueues(st, queue_names, 1, <<>>, -1) IN
    IF Truthy(r.best_queue)
    THEN LET q == r.best_queue[1] IN
         [st |-> [r.st EXCEPT !.queues[q] = HeapPop(@)],
          job |-> HeapTop(r.st.queues[q])[3]]
    ELSE [st |-> r.st, job |-> None]

\* mutant: the job is marked and dropped from the lookup, its worker is kept
ServerDeleteKeepsWorker(st, job_id) ==
    IF job_id \notin st.jobs
    THEN [st |-> st, ok |-> FALSE]
    ELSE IF st.job_objs[job_id].is_deleted
    THEN [st |-> st, ok |-> FALSE]
    ELSE [st |-> [st EXCEPT !.job_objs[job_id].is_deleted = TRUE,
                            !.jobs = @ \ {job_id}],
          ok |-> TRUE]

ServerDelete(st, job_id) ==
    IF job_id \notin st.jobs
    THEN [st |-> st, ok |-> FALSE]
    ELSE IF st.job_objs[job_id].is_deleted
    THEN [st |-> st, ok |-> FALSE]
    ELSE LET w == st.job_objs[job_id].worker IN
         [st |-> [st EXCEPT
                    !.job_objs[job_id].is_deleted = TRUE,
                    !.job_objs[job_id].worker = None,
                    !.jobs = @ \ {job_id},
                    !.working_jobs = IF w # None
                                     THEN [@ EXCEPT ![w] = @ \ {job_id}]
                                     ELSE @],
          ok |-> TRUE]

\* mutant: the check of the job's worker against the caller is left out
ServerAbortAnyWorker(st, job_id, client) ==
    IF job_id \notin st.jobs
    THEN {[st |-> st, ok |-> FALSE]}
    ELSE IF st.job_objs[job_id].is_deleted
    THEN {[st |-> st, ok |-> FALSE]}
    ELSE LET st1 == [st EXCEPT !.job_objs[job_id].worker = None,
                               !.working_jobs[client] = @ \ {job_id}]
         IN  {[st |-> s, ok |-> TRUE] : s \in RequeueOutcomes(st1, job_id)}

ServerAbort(st, job_id, client) ==
    IF job_id \notin st.jobs
    THEN {[st |-> st, ok |-> FALSE]}
    ELSE IF st.job_objs[job_id].is_deleted
    THEN {[st |-> st, ok |-> FALSE]}
    ELSE IF st.job_objs[job_id].worker # client
    THEN {[st |-> st, ok |-> FALSE]}
    ELSE LET st1 == [st EXCEPT !.job_objs[job_id].worker = None,
                               !.working_jobs[client] = @ \ {job_id}]
         IN  {[st |-> s, ok |-> TRUE] : s \in RequeueOutcomes(st1, job_id)}

\* ----------------------------------------------------------- ClientHandler
\* for q in queues: waiters.setdefault(q, set()).add(future)
RECURSIVE RegisterWaiter(_, _, _)
RegisterWaiter(w, qs, f) ==
    IF qs = <<>> THEN w
    ELSE LET q == Head(qs)
             cur == IF q \in DOMAIN w THEN w[q] ELSE {}
         IN  RegisterWaiter(DictSet(w, q, cur \cup {f}), Tail(qs), f)

\* mutant: the finally block discards the future from the first queue only
UnregisterWaiterFirstOnly(w, qs, f) ==
    IF qs = <<>> THEN w
    ELSE LET q == Head(qs) IN
         IF q \in DOMAIN w
         THEN IF w[q] \ {f} = {} THEN DictDel(w, q) ELSE [w EXCEPT ![q] = @ \ {f}]
         ELSE w

\* the finally block of handle_get
RECURSIVE UnregisterWaiter(_, _, _)
UnregisterWaiter(w, qs, f) ==
    IF qs = <<>> THEN w
    ELSE LET q == Head(qs) IN
         IF q \in DOMAIN w
         THEN UnregisterWaiter(IF w[q] \ {f} = {} THEN DictDel(w, q)
                               ELSE [w EXCEPT ![q] = @ \ {f}], Tail(qs), f)
         ELSE UnregisterWaiter(w, Tail(qs), f)

\* mutant: the worker is set, the id is not added to the owned set
MarkWorkingNoAdd(st, c, j) ==
    [st EXCEPT !.job_objs[j].worker = c]

\* if job: job.worker = self; self.working_jobs.add(job.id)
MarkWorking(st, c, j) ==
    [st EXCEPT !.job_objs[j].worker = c, !.working_jobs[c] = @ \cup {j}]

\* list(self.working_jobs): the iteration order of a set
Orderings(S) ==
    {o \in [1..Cardinality(S) -> S] : \A a, b \in 1..Cardinality(S) : a # b => o[a] # o[b]}

\* for job_id in ids: self.server.abort(job_id, self), from each store of S
RECURSIVE AbortEach(_, _, _)
AbortEach(S, ids, c) ==
    IF ids = <<>> THEN S
    ELSE AbortEach(UNION {{o.st : o \in ServerAbort(s, Head(ids), c)} : s \in S},
                   Tail(ids), c)

TypeOK ==
    /\ id_counter \in 1..(QMaxJobs + MaxJobs + RMaxJobs + 1)
    /\ tie_breaker \in 0..(QMaxTie + MaxTie + RMaxTie)
    /\ jobs \subseteq DOMAIN job_objs
    /\ DOMAIN job_objs = 1..(id_counter - 1)
    /\ DOMAIN queues \subseteq QueueNames
    /\ DOMAIN waiters \subseteq QueueNames
    /\ \A q \in DOMAIN waiters : waiters[q] \subseteq Clients
    /\ pc \in [Clients -> {"idle", "waiting", "closed"}]
    /\ eof \in [Clients -> BOOLEAN]
    /\ must_cancel \in [Clients -> BOOLEAN]
    /\ \A c \in Clients : working_jobs[c] \subseteq DOMAIN job_objs

Init ==
    /\ id_counter = 1
    /\ tie_breaker = 0
    /\ jobs = {}
    /\ job_objs = <<>>
    /\ queues = <<>>
    /\ waiters = <<>>
    /\ future = [c \in Clients |-> NoFuture]
    /\ must_cancel = [c \in Clients |-> FALSE]
    /\ get_queues = [c \in Clients |-> <<>>]
    /\ pc = [c \in Clients |-> "idle"]
    /\ eof = [c \in Clients |-> FALSE]
    /\ working_jobs = [c \in Clients |-> {}]
    /\ resp = NoResp
    /\ sessions = <<>>
    /\ out = <<>>
    /\ peer = [state |-> "init", sent_acked |-> 0, received |-> <<>>]
    /\ peer_out = <<>>
    /\ destroyed = FALSE

\* handle_put: one request line {"request":"put",...} read by run().  The
\* lines a peer sent before it closed count as read before the close, so a
\* handler whose peer has closed takes no further request.
HandlePut(c, queue, pri, payload) ==
    /\ pc[c] = "idle"
    /\ ~eof[c]
    /\ \E o \in ServerPut(Store, pri, queue, payload) :
          /\ SetStore(o.st)
          /\ resp' = Response("put", "ok", o.id)
    /\ UNCHANGED <<must_cancel, get_queues, pc, eof>>

\* handle_get up to its first suspension: the answer, or the await on the future
HandleGet(c, qs, wait) ==
    /\ pc[c] = "idle"
    /\ ~eof[c]
    /\ \E r \in {ServerGetNowait(Store, qs)} :
       IF r.job = None /\ wait
       THEN /\ SetStore([r.st EXCEPT !.waiters = RegisterWaiter(@, qs, c),
                                    !.future[c] = PendingFuture])
            /\ get_queues' = [get_queues EXCEPT ![c] = qs]
            /\ pc' = [pc EXCEPT ![c] = "waiting"]
            /\ resp' = NoResp
       ELSE IF r.job # None
       THEN /\ SetStore(MarkWorking(r.st, c, r.job))
            /\ resp' = ToJson(r.st.job_objs[r.job])
            /\ UNCHANGED <<get_queues, pc>>
       ELSE /\ SetStore(r.st)
            /\ resp' = Response("get", "no-job", 0)
            /\ UNCHANGED <<get_queues, pc>>
    /\ UNCHANGED <<must_cancel, eof>>

\* handle_get from `job = await future` on: the task is woken with the
\* future's result, or with CancelledError when the future was cancelled or
\* the task was cancelled after the future got its result.
ResumeGet(c) ==
    /\ pc[c] = "waiting"
    /\ future[c].state \in {"result", "cancelled"}
    /\ LET job == IF future[c].state = "result" /\ ~must_cancel[c]
                  THEN future[c].job ELSE None
           st1 == [Store EXCEPT !.waiters = UnregisterWaiter(@, get_queues[c], c),
                                !.future[c] = NoFuture]
       IN  IF job # None
           THEN /\ SetStore(MarkWorking(st1, c, job))
                /\ resp' = ToJson(job_objs[job])
           ELSE /\ SetStore(st1)
                /\ resp' = Response("get", "no-job", 0)
    /\ must_cancel' = [must_cancel EXCEPT ![c] = FALSE]
    /\ get_queues' = [get_queues EXCEPT ![c] = <<>>]
    /\ pc' = [pc EXCEPT ![c] = "idle"]
    /\ UNCHANGED eof

HandleDelete(c, job_id) ==
    /\ pc[c] = "idle"
    /\ ~eof[c]
    /\ \E r \in {ServerDelete(Store, job_id)} :
       /\ SetStore(r.st)
       /\ resp' = Response("delete", IF r.ok THEN "ok" ELSE "no-job", job_id)
    /\ UNCHANGED <<must_cancel, get_queues, pc, eof>>

HandleAbort(c, job_id) ==
    /\ pc[c] = "idle"
    /\ ~eof[c]
    /\ \E o \in ServerAbort(Store, job_id, c) :
          /\ SetStore(o.st)
          /\ resp' = Response("abort", IF o.ok THEN "ok" ELSE "no-job", job_id)
    /\ UNCHANGED <<must_cancel, get_queues, pc, eof>>

\* the finally block of run(): abort every job of working_jobs, then close
Cleanup(c) ==
    /\ \E order \in Orderings(working_jobs[c]) :
          \E s \in AbortEach({Store}, order, c) :
             /\ SetStore(s)
    /\ pc' = [pc EXCEPT ![c] = "closed"]
    /\ resp' = NoResp
    /\ UNCHANGED <<must_cancel, get_queues>>

\* The peer closes the connection.  A handler suspended in readline reads
\* b'' (or gets the error) and leaves its loop; one suspended on its future
\* is not woken: it reads the end of input only after its get has answered.
Disconnect(c) ==
    /\ ~eof[c]
    /\ eof' = [eof EXCEPT ![c] = TRUE]
    /\ \/ /\ pc[c] = "idle"
          /\ Cleanup(c)
       \/ /\ pc[c] = "waiting"
          /\ resp' = NoResp
          /\ UNCHANGED <<id_counter, tie_breaker, jobs, job_objs, queues, waiters,
                         future, must_cancel, get_queues, pc, working_jobs>>

\* run(): back in readline after a get that outlived its peer
ReadEof(c) ==
    /\ pc[c] = "idle"
    /\ eof[c]
    /\ Cleanup(c)
    /\ UNCHANGED eof

\* The event loop cancels a handler task that is suspended in its get
\* (asyncio.run cancels every task when it shuts down).  A pending future is
\* cancelled; when the future already has its result the task gets
\* _must_cancel and is woken with CancelledError all the same.  handle_get
\* swallows the CancelledError, so the handler goes on serving its
\* connection.  (A task cancelled in readline ends as on end of input.)
CancelTask(c) ==
    /\ pc[c] = "waiting"
    /\ \/ /\ future[c].state = "pending"
          /\ future' = [future EXCEPT ![c].state = "cancelled"]
          /\ UNCHANGED must_cancel
       \/ /\ future[c].state = "result"
          /\ ~must_cancel[c]
          /\ must_cancel' = [must_cancel EXCEPT ![c] = TRUE]
          /\ UNCHANGED future
    /\ resp' = NoResp
    /\ UNCHANGED <<id_counter, tie_breaker, jobs, job_objs, queues, waiters,
                   get_queues, pc, eof, working_jobs>>

\* The counters are unbounded in the program; a step that would take one
\* past its bound is left out.
Bounded(maxJobs, maxTie) == id_counter' <= maxJobs + 1 /\ tie_breaker' <= maxTie

Next ==
    \/ \E c \in Clients, q \in QueueNames, pri \in WaitPriorities, p \in Payloads :
          HandlePut(c, q, pri, p) /\ Bounded(MaxJobs, MaxTie) /\ UNCHANGED lrcp_vars
    \/ \E c \in Clients, qs \in WaitLists, wait \in BOOLEAN : HandleGet(c, qs, wait) /\ UNCHANGED lrcp_vars
    \/ \E c \in Clients : ResumeGet(c) /\ UNCHANGED lrcp_vars
    \/ \E c \in Clients, j \in 1..MaxJobs : HandleDelete(c, j) /\ UNCHANGED lrcp_vars
    \/ \E c \in Clients, j \in 1..MaxJobs : HandleAbort(c, j) /\ Bounded(MaxJobs, MaxTie) /\ UNCHANGED lrcp_vars
    \/ \E c \in Clients : Disconnect(c) /\ Bounded(MaxJobs, MaxTie) /\ UNCHANGED lrcp_vars
    \/ \E c \in Clients : ReadEof(c) /\ Bounded(MaxJobs, MaxTie) /\ UNCHANGED lrcp_vars
    \/ \E c \in Clients : CancelTask(c) /\ UNCHANGED lrcp_vars

Spec == Init /\ [][Next]_all_vars

\* Two jobs among suspended gets: puts, gets with and without wait, aborts and
\* task cancellations of two connections, so that a job meets a waiter that
\* another job has already completed.
WakeNext ==
    \/ \E c \in Clients, q \in QueueNames, pri \in WaitPriorities, p \in Payloads :
          HandlePut(c, q, pri, p) /\ Bounded(WMaxJobs, WMaxTie) /\ UNCHANGED lrcp_vars
    \/ \E c \in Clients, qs \in WaitLists, wait \in BOOLEAN : HandleGet(c, qs, wait) /\ UNCHANGED lrcp_vars
    \/ \E c \in Clients : ResumeGet(c) /\ UNCHANGED lrcp_vars
    \/ \E c \in Clients, j \in 1..WMaxJobs : HandleAbort(c, j) /\ Bounded(WMaxJobs, WMaxTie) /\ UNCHANGED lrcp_vars
    \/ \E c \in Clients : CancelTask(c) /\ UNCHANGED lrcp_vars

WakeSpec == Init /\ [][WakeNext]_all_vars

\* The life of one job: every operation of two connections, the job pushed
\* into its heap more than once.
LifeNext ==
    \/ \E c \in Clients, q \in QueueNames, pri \in WaitPriorities, p \in Payloads :
          HandlePut(c, q, pri, p) /\ Bounded(LMaxJobs, LMaxTie) /\ UNCHANGED lrcp_vars
    \/ \E c \in Clients, qs \in WaitLists, wait \in BOOLEAN : HandleGet(c, qs, wait) /\ UNCHANGED lrcp_vars
    \/ \E c \in Clients : ResumeGet(c) /\ UNCHANGED lrcp_vars
    \/ \E c \in Clients, j \in 1..LMaxJobs : HandleDelete(c, j) /\ UNCHANGED lrcp_vars
    \/ \E c \in Clients, j \in 1..LMaxJobs : HandleAbort(c, j) /\ Bounded(LMaxJobs, LMaxTie) /\ UNCHANGED lrcp_vars
    \/ \E c \in Clients : Disconnect(c) /\ Bounded(LMaxJobs, LMaxTie) /\ UNCHANGED lrcp_vars
    \/ \E c \in Clients : ReadEof(c) /\ Bounded(LMaxJobs, LMaxTie) /\ UNCHANGED lrcp_vars
    \/ \E c \in Clients : CancelTask(c) /\ UNCHANGED lrcp_vars

LifeSpec == Init /\ [][LifeNext]_all_vars

\* Immediate requests of one connection only: no get suspends, so no future
\* exists; both priorities are put.
QueueNext ==
    \/ \E c \in QClients, q \in QueueNames, pri \in Priorities, p \in Payloads :
          HandlePut(c, q, pri, p) /\ Bounded(QMaxJobs, QMaxTie) /\ UNCHANGED lrcp_vars
    \/ \E c \in QClients, qs \in QueueLists : HandleGet(c, qs, FALSE) /\ UNCHANGED lrcp_vars
    \/ \E c \in QClients, j \in 1..QMaxJobs : HandleDelete(c, j) /\ UNCHANGED lrcp_vars
    \/ \E c \in QClients, j \in 1..QMaxJobs : HandleAbort(c, j) /\ Bounded(QMaxJobs, QMaxTie) /\ UNCHANGED lrcp_vars

QueueSpec == Init /\ [][QueueNext]_all_vars

\* ------------------------------------------------------------ request lines
\* A JSON value of a request: its Python type after json.loads and its
\* content (s for a str, n for an int, l for a list of str).
Absent == [type |-> "absent", s |-> "", n |-> 0, l |-> <<>>]
StrVal(x) == [type |-> "str", s |-> x, n |-> 0, l |-> <<>>]
IntVal(x) == [type |-> "int", s |-> "", n |-> x, l |-> <<>>]
FloatVal == [type |-> "float", s |-> "", n |-> 0, l |-> <<>>]
StrList(x) == [type |-> "list", s |-> "", n |-> 0, l |-> x]
\* a list with an element that is not a str
MixedList == [type |-> "mixed_list", s |-> "", n |-> 0, l |-> <<>>]

\* A line read by run(): json is "invalid" for text json.loads rejects with
\* JSONDecodeError, "object" for a JSON object, and the kind of the value
\* ("array", "number") for any other JSON text; the fields are the keys of
\* the object.
EmptyObject ==
    [json |-> "object", request |-> Absent, queue |-> Absent, pri |-> Absent,
     job |-> Absent, queues |-> Absent, wait |-> FALSE, id |-> Absent]
PutLine(queue, pri, job) ==
    [EmptyObject EXCEPT !.request = StrVal("put"), !.queue = queue, !.pri = pri, !.job = job]
GetLine(queue_list) ==
    [EmptyObject EXCEPT !.request = StrVal("get"), !.queues = queue_list]
IdLine(request, id) ==
    [EmptyObject EXCEPT !.request = StrVal(request), !.id = id]

RequestLines ==
    { [EmptyObject EXCEPT !.json = "invalid"],
      [EmptyObject EXCEPT !.json = "array"],
      [EmptyObject EXCEPT !.json = "number"],
      EmptyObject,
      [EmptyObject EXCEPT !.request = StrVal("nope")],
      PutLine(StrVal("q"), IntVal(0), StrVal("p")),
      PutLine(StrVal(""), IntVal(0), StrVal("p")),
      PutLine(StrVal("q"), IntVal(-1), StrVal("p")),
      PutLine(StrVal("q"), FloatVal, StrVal("p")),
      PutLine(IntVal(1), IntVal(0), StrVal("p")),
      PutLine(StrVal("q"), IntVal(0), Absent),
      GetLine(StrList(<<"q">>)),
      GetLine(StrVal("q")),
      GetLine(MixedList),
      GetLine(Absent),
      IdLine("delete", IntVal(1)),
      IdLine("delete", StrVal("1")),
      IdLine("abort", IntVal(1)),
      IdLine("abort", Absent) }

\* What run() and the handler it dispatches to make of a line, before the
\* store is touched: "error" with the handler that sends it, "raise" for an
\* exception that leaves the loop of run(), or the validated request.
RunLine(line) ==
    IF line.json = "invalid" THEN [kind |-> "error", by |-> "run"]
    ELSE IF line.json # "object" THEN [kind |-> "raise", by |-> "run"]
    ELSE IF line.request = StrVal("put")
    THEN IF \/ line.queue.type = "absent" \/ line.job.type = "absent"
            \/ line.pri.type = "absent"
            \/ line.queue.type # "str" \/ line.pri.type # "int" \/ line.pri.n < 0
         THEN [kind |-> "error", by |-> "put"]
         ELSE [kind |-> "put", by |-> "put"]
    ELSE IF line.request = StrVal("get")
    THEN IF line.queues.type # "list"
         THEN [kind |-> "error", by |-> "get"]
         ELSE [kind |-> "get", by |-> "get"]
    ELSE IF line.request \in {StrVal("delete"), StrVal("abort")}
    THEN IF line.id.type # "int"
         THEN [kind |-> "error", by |-> line.request.s]
         ELSE [kind |-> line.request.s, by |-> line.request.s]
    ELSE [kind |-> "error", by |-> "run"]

\* One turn of the loop of run() on a line that was read.
HandleLine(c, line) ==
    \E r \in {RunLine(line)} :
        \/ /\ r.kind = "error"
           /\ pc[c] = "idle"
           /\ ~eof[c]
           /\ resp' = Response(r.by, "error", 0)
           /\ UNCHANGED <<id_counter, tie_breaker, jobs, job_objs, queues, waiters,
                          future, must_cancel, get_queues, pc, eof, working_jobs>>
        \/ /\ r.kind = "raise"
           /\ pc[c] = "idle"
           /\ ~eof[c]
           /\ Cleanup(c)
           /\ UNCHANGED eof
        \/ /\ r.kind = "put"
           /\ HandlePut(c, line.queue.s, line.pri.n, line.job.s)
        \/ /\ r.kind = "get"
           /\ HandleGet(c, line.queues.l, line.wait)
        \/ /\ r.kind = "delete"
           /\ HandleDelete(c, line.id.n)
        \/ /\ r.kind = "abort"
           /\ HandleAbort(c, line.id.n)

RequestNext ==
    \E c \in Clients, line \in RequestLines :
        HandleLine(c, line) /\ Bounded(RMaxJobs, RMaxTie) /\ UNCHANGED lrcp_vars

RequestSpec == Init /\ [][RequestNext]_all_vars

\* =================================================================== LRCP
\* src/sol-py/LRCP/sol.py: the sessions (LRCPSession) and the server loop
\* (LRCPServer).  A byte string is a sequence of one-character strings.  A
\* step of the model is one iteration of LRCPServer.run.

MAX_PACKET_SIZE == 999
\* MAX_INT - 1, the largest number the server admits in a numeric field
\* (MAX_INT itself, 2^31, is above the integers of the model checker)
MAX_INT_PRED == 2147483647
SEND_WINDOW_SIZE == 4000

\* a datagram the server sends: num is the length of an ack or the pos of a
\* data packet, data the escaped payload of a data packet
Datagram(to, cmd, sid, num, data) ==
    [to |-> to, cmd |-> cmd, sid |-> sid, num |-> num, data |-> data]

\* a datagram the server receives, split into its fields
Packet(cmd, sid, num, data) == [cmd |-> cmd, sid |-> sid, num |-> num, data |-> data]

\* LRCPSession.__init__.  The two times are kept as ages: last_activity_age
\* is 1 when now - last_activity_time > SESSION_EXPIRY_TIMEOUT, else 0;
\* last_retransmit_age is 0 when now - last_retransmit_time <= 0.2, 1 when
\* it is above 0.2 and at most RETRANSMIT_TIMEOUT, 2 when it is above that.
LRCPSession(session_id, addr) ==
    [session_id |-> session_id, addr |-> addr, is_closed |-> FALSE,
     last_activity_age |-> 0, last_retransmit_age |-> 0,
     bytes_received |-> 0, bytes_sent_acked |-> 0,
     tx_buffer |-> <<>>, rx_buffer |-> <<>>]

EscapeChar(char) ==
    IF char = "\\" THEN <<"\\", "\\">>
    ELSE IF char = "/" THEN <<"\\", "/">>
    ELSE <<char>>

RECURSIVE UnescapeFrom(_, _)
UnescapeFrom(data, i) ==
    IF i > Len(data) THEN <<>>
    ELSE IF data[i] = "\\"
    THEN IF i + 1 <= Len(data) /\ data[i + 1] \in {"\\", "/"}
         THEN <<data[i + 1]>> \o UnescapeFrom(data, i + 2)
         ELSE <<"\\">> \o UnescapeFrom(data, i + 1)
    ELSE <<data[i]>> \o UnescapeFrom(data, i + 1)

UnescapeData(data) == UnescapeFrom(data, 1)

RECURSIVE Reverse(_)
Reverse(line) ==
    IF line = <<>> THEN <<>> ELSE Reverse(Tail(line)) \o <<Head(line)>>

\* len(str(n))
RECURSIVE DecLen(_)
DecLen(n) ==
    IF n < 0 THEN 1 + DecLen(0 - n)
    ELSE IF n < 10 THEN 1 ELSE 1 + DecLen(n \div 10)

\* The methods of a session work on r = [s |-> the session, out |-> the
\* datagrams sent so far in this iteration].
SendPacket(r, cmd, num, data) ==
    [r EXCEPT !.out = Append(@, Datagram(r.s.addr, cmd, r.s.session_id, num, data))]

SendAck(r) == SendPacket(r, "ack", r.s.bytes_received, <<>>)

Touch(r) == [r EXCEPT !.s.last_activity_age = 0]

\* mutant: close sets is_closed and sends nothing
SessionCloseSilent(r) == [r EXCEPT !.s.is_closed = TRUE]

SessionClose(r) ==
    IF ~r.s.is_closed
    THEN [SendPacket(r, "close", 0, <<>>) EXCEPT !.s.is_closed = TRUE]
    ELSE r

\* chunk_len_chars after the bytes from offset from up to offset to are packed
Cost(tx, from, to) ==
    (to - from) + Cardinality({i \in (from + 1)..to : tx[i] \in {"\\", "/"}})

\* the largest offset in lo..hi up to which the bytes from offset from fit
\* into room characters
RECURSIVE PackSearch(_, _, _, _, _)
PackSearch(tx, from, lo, hi, room) ==
    IF lo >= hi THEN lo
    ELSE LET mid == (lo + hi + 1) \div 2 IN
         IF Cost(tx, from, mid) <= room
         THEN PackSearch(tx, from, mid, hi, room)
         ELSE PackSearch(tx, from, lo, mid - 1, room)

\* the inner while of retransmit_data: the offset after the bytes packed.
\* The loop packs bytes until one does not fit; every byte costs at least
\* one character, so it stops at the largest offset whose bytes fit.
PackEnd(tx, temp_offset, chunk_len_chars, available_space) ==
    PackSearch(tx, temp_offset, temp_offset, Len(tx), available_space - chunk_len_chars)

\* the join of escape_char over the bytes from offset from up to offset to
RECURSIVE EscapeRange(_, _, _)
EscapeRange(tx, from, to) ==
    IF from >= to THEN <<>>
    ELSE IF to = from + 1 THEN EscapeChar(tx[to])
    ELSE LET mid == (from + to) \div 2 IN
         EscapeRange(tx, from, mid) \o EscapeRange(tx, mid, to)

\* the pipelining loop of retransmit_data from buffer_offset on
RECURSIVE Burst(_, _, _, _)
Burst(r, buffer_offset, max_packet_size, send_window_size) ==
    IF ~(buffer_offset < Len(r.s.tx_buffer) /\ buffer_offset < send_window_size)
    THEN r
    ELSE LET current_abs_pos == r.s.bytes_sent_acked + buffer_offset
             header_len == 8 + DecLen(r.s.session_id) + DecLen(current_abs_pos)
             available_space == max_packet_size - header_len - 1
             temp_offset == PackEnd(r.s.tx_buffer, buffer_offset, 0, available_space)
         IN  IF available_space <= 0 \/ temp_offset = buffer_offset THEN r
             ELSE Burst(SendPacket(r, "data", current_abs_pos,
                                   EscapeRange(r.s.tx_buffer, buffer_offset, temp_offset)),
                        temp_offset, max_packet_size, send_window_size)

\* mutant: the closing slash is not counted
RetransmitDataOversize(r) ==
    IF r.s.tx_buffer = <<>> THEN r
    ELSE [Burst(r, 0, MAX_PACKET_SIZE + 1, SEND_WINDOW_SIZE) EXCEPT !.s.last_retransmit_age = 0]

\* mutant: the bytes go out as they are, slashes and backslashes too
RetransmitDataRaw(r) ==
    IF r.s.tx_buffer = <<>> THEN r
    ELSE [SendPacket(r, "data", r.s.bytes_sent_acked, r.s.tx_buffer)
             EXCEPT !.s.last_retransmit_age = 0]

RetransmitData(r) ==
    IF r.s.tx_buffer = <<>> THEN r
    ELSE [Burst(r, 0, MAX_PACKET_SIZE, SEND_WINDOW_SIZE) EXCEPT !.s.last_retransmit_age = 0]

\* index of the first newline of buf, 0 when there is none
FirstNewline(buf) ==
    IF \E i \in 1..Len(buf) : buf[i] = "\n"
    THEN CHOOSE i \in 1..Len(buf) : buf[i] = "\n" /\ \A k \in 1..(i - 1) : buf[k] # "\n"
    ELSE 0

\* the while loop of process_application_data
RECURSIVE ConsumeLines(_)
ConsumeLines(s) ==
    LET i == FirstNewline(s.rx_buffer) IN
    IF i = 0 THEN s
    ELSE ConsumeLines([s EXCEPT
            !.rx_buffer = SubSeq(@, i + 1, Len(@)),
            !.tx_buffer = @ \o Reverse(SubSeq(s.rx_buffer, 1, i - 1)) \o <<"\n">>])

\* mutant: the lines are sent back as they came
RECURSIVE ConsumeLinesEcho(_)
ConsumeLinesEcho(s) ==
    LET i == FirstNewline(s.rx_buffer) IN
    IF i = 0 THEN s
    ELSE ConsumeLinesEcho([s EXCEPT
            !.rx_buffer = SubSeq(@, i + 1, Len(@)),
            !.tx_buffer = @ \o SubSeq(s.rx_buffer, 1, i)])

\* mutant: one line is consumed per call, an if in place of the while
ConsumeLinesOnce(s) ==
    LET i == FirstNewline(s.rx_buffer) IN
    IF i = 0 THEN s
    ELSE [s EXCEPT
            !.rx_buffer = SubSeq(@, i + 1, Len(@)),
            !.tx_buffer = @ \o Reverse(SubSeq(s.rx_buffer, 1, i - 1)) \o <<"\n">>]

ProcessApplicationDataOnce(r) ==
    LET r1 == [r EXCEPT !.s = ConsumeLinesOnce(@)] IN
    IF r1.s.tx_buffer # <<>> THEN RetransmitData(r1) ELSE r1

ProcessApplicationDataEcho(r) ==
    LET r1 == [r EXCEPT !.s = ConsumeLinesEcho(@)] IN
    IF r1.s.tx_buffer # <<>> THEN RetransmitData(r1) ELSE r1

ProcessApplicationData(r) ==
    LET r1 == [r EXCEPT !.s = ConsumeLines(@)] IN
    IF r1.s.tx_buffer # <<>> THEN RetransmitData(r1) ELSE r1

\* mutant: a packet below bytes_received is taken as well
HandleDataPacketOverlap(r, pos, payload_str) ==
    LET payload == UnescapeData(payload_str) IN
    IF pos <= r.s.bytes_received
    THEN SendAck(ProcessApplicationData(
             [r EXCEPT !.s.bytes_received = @ + Len(payload),
                       !.s.rx_buffer = @ \o payload]))
    ELSE SendAck(r)

HandleDataPacket(r, pos, payload_str) ==
    LET payload == UnescapeData(payload_str) IN
    IF pos = r.s.bytes_received
    THEN SendAck(ProcessApplicationData(
             [r EXCEPT !.s.bytes_received = @ + Len(payload),
                       !.s.rx_buffer = @ \o payload]))
    ELSE SendAck(r)

\* mutant: an ack below bytes_sent_acked sets the count back
HandleAckPacketSetsBack(r, length) ==
    LET total_sent_buffered == r.s.bytes_sent_acked + Len(r.s.tx_buffer) IN
    IF length > total_sent_buffered THEN SessionClose(r)
    ELSE IF length > r.s.bytes_sent_acked
    THEN LET acked_amount == length - r.s.bytes_sent_acked
             r1 == [r EXCEPT !.s.tx_buffer = SubSeq(@, acked_amount + 1, Len(@)),
                             !.s.bytes_sent_acked = length,
                             !.s.last_retransmit_age = 0]
         IN  IF r1.s.tx_buffer # <<>> THEN RetransmitData(r1) ELSE r1
    ELSE IF length >= 0 /\ length < r.s.bytes_sent_acked
    THEN [r EXCEPT !.s.bytes_sent_acked = length]
    ELSE IF length = r.s.bytes_sent_acked
              /\ r.s.tx_buffer # <<>> /\ r.s.last_retransmit_age >= 1
    THEN RetransmitData(r)
    ELSE r

\* mutant: an ack moves bytes_sent_acked and leaves tx_buffer whole
HandleAckPacketKeepsBuffer(r, length) ==
    LET total_sent_buffered == r.s.bytes_sent_acked + Len(r.s.tx_buffer) IN
    IF length > total_sent_buffered THEN SessionClose(r)
    ELSE IF length > r.s.bytes_sent_acked
    THEN RetransmitData([r EXCEPT !.s.bytes_sent_acked = length,
                                  !.s.last_retransmit_age = 0])
    ELSE IF length = r.s.bytes_sent_acked
              /\ r.s.tx_buffer # <<>> /\ r.s.last_retransmit_age >= 1
    THEN RetransmitData(r)
    ELSE r

\* mutant: the acknowledged bytes are cut from the end of tx_buffer
HandleAckPacketCutsTail(r, length) ==
    LET total_sent_buffered == r.s.bytes_sent_acked + Len(r.s.tx_buffer) IN
    IF length > total_sent_buffered THEN SessionClose(r)
    ELSE IF length > r.s.bytes_sent_acked
    THEN LET acked_amount == length - r.s.bytes_sent_acked
             r1 == [r EXCEPT !.s.tx_buffer = SubSeq(@, 1, Len(@) - acked_amount),
                             !.s.bytes_sent_acked = length,
                             !.s.last_retransmit_age = 0]
         IN  IF r1.s.tx_buffer # <<>> THEN RetransmitData(r1) ELSE r1
    ELSE IF length = r.s.bytes_sent_acked
              /\ r.s.tx_buffer # <<>> /\ r.s.last_retransmit_age >= 1
    THEN RetransmitData(r)
    ELSE r

HandleAckPacket(r, length) ==
    LET total_sent_buffered == r.s.bytes_sent_acked + Len(r.s.tx_buffer) IN
    IF length > total_sent_buffered THEN SessionClose(r)
    ELSE IF length > r.s.bytes_sent_acked
    THEN LET acked_amount == length - r.s.bytes_sent_acked
             r1 == [r EXCEPT !.s.tx_buffer = SubSeq(@, acked_amount + 1, Len(@)),
                             !.s.bytes_sent_acked = length,
                             !.s.last_retransmit_age = 0]
         IN  IF r1.s.tx_buffer # <<>> THEN RetransmitData(r1) ELSE r1
    ELSE IF length = r.s.bytes_sent_acked
              /\ r.s.tx_buffer # <<>> /\ r.s.last_retransmit_age >= 1
    THEN RetransmitData(r)
    ELSE r

\* mutant: tick closes an expired session with a close datagram
SessionTickCloses(r) ==
    IF r.s.last_activity_age = 1 THEN SendPacket([r EXCEPT !.s.is_closed = TRUE], "close", 0, <<>>)
    ELSE IF r.s.tx_buffer # <<>> /\ r.s.last_retransmit_age = 2 THEN RetransmitData(r)
    ELSE r

\* mutant: tick expires a session and never retransmits
SessionTickNoRetransmit(r) ==
    IF r.s.last_activity_age = 1 THEN [r EXCEPT !.s.is_closed = TRUE] ELSE r

SessionTick(r) ==
    IF r.s.last_activity_age = 1 THEN [r EXCEPT !.s.is_closed = TRUE]
    ELSE IF r.s.tx_buffer # <<>> /\ r.s.last_retransmit_age = 2 THEN RetransmitData(r)
    ELSE r

\* ------------------------------------------------------------- LRCPServer
\* self.sessions is a dict: the sessions in insertion order.  The index of
\* the session of an id, 0 when the dict has none.
Find(ss, session_id) ==
    IF \E i \in 1..Len(ss) : ss[i].session_id = session_id
    THEN CHOOSE i \in 1..Len(ss) : ss[i].session_id = session_id
    ELSE 0

\* self.sessions.pop(session_id, None)
Pop(ss, session_id) == SelectSeq(ss, LAMBDA x : x.session_id # session_id)

\* run a method of session i and store the session back
OnSession(ctx, i, r) == [sessions |-> [ctx.sessions EXCEPT ![i] = r.s], out |-> r.out]

\* mutant: every connect installs a fresh session
HandleConnectResets(ctx, session_id, addr) ==
    LET ss == Append(Pop(ctx.sessions, session_id), LRCPSession(session_id, addr))
        i == Find(ss, session_id)
    IN  OnSession([ctx EXCEPT !.sessions = ss], i, SendAck([s |-> ss[i], out |-> ctx.out]))

HandleConnect(ctx, session_id, addr) ==
    LET ss == IF Find(ctx.sessions, session_id) = 0
              THEN Append(ctx.sessions, LRCPSession(session_id, addr))
              ELSE ctx.sessions
        i == Find(ss, session_id)
    IN  OnSession([ctx EXCEPT !.sessions = ss], i, SendAck([s |-> ss[i], out |-> ctx.out]))

\* handle_packet on a datagram that split into the fields of its command
HandlePacket(ctx, pkt, addr) ==
    IF pkt.sid > MAX_INT_PRED THEN ctx
    ELSE IF pkt.cmd = "connect" THEN HandleConnect(ctx, pkt.sid, addr)
    ELSE LET i == Find(ctx.sessions, pkt.sid) IN
         IF i = 0
         THEN IF pkt.cmd # "close"
              THEN [ctx EXCEPT !.out =
                       SessionClose([s |-> LRCPSession(pkt.sid, addr), out |-> @]).out]
              ELSE ctx
         ELSE IF ctx.sessions[i].addr # addr THEN ctx
         ELSE LET r == Touch([s |-> ctx.sessions[i], out |-> ctx.out]) IN
              IF pkt.cmd = "data"
              THEN IF pkt.num > MAX_INT_PRED THEN OnSession(ctx, i, r)
                   ELSE OnSession(ctx, i, HandleDataPacket(r, pkt.num, pkt.data))
              ELSE IF pkt.cmd = "ack"
              THEN IF pkt.num > MAX_INT_PRED THEN OnSession(ctx, i, r)
                   ELSE OnSession(ctx, i, HandleAckPacket(r, pkt.num))
              ELSE LET c == OnSession(ctx, i, SessionClose(r)) IN
                   [c EXCEPT !.sessions = Pop(@, pkt.sid)]

\* the first loop of tick_sessions from session i on
RECURSIVE TickFrom(_, _)
TickFrom(ctx, i) ==
    IF i > Len(ctx.sessions) THEN ctx
    ELSE TickFrom(OnSession(ctx, i, SessionTick([s |-> ctx.sessions[i], out |-> ctx.out])),
                  i + 1)

\* mutant: the tick pass leaves closed sessions in the dict
TickSessionsKeepsClosed(ctx) == TickFrom(ctx, 1)

\* mutant: the tick pass removes the first closed session it found, no more
TickSessionsRemovesOne(ctx) ==
    LET c == TickFrom(ctx, 1)
        closed == {i \in 1..Len(c.sessions) : c.sessions[i].is_closed}
    IN  IF closed = {} THEN c
        ELSE LET first == CHOOSE i \in closed : \A k \in closed : i <= k
             IN  [c EXCEPT !.sessions =
                     SubSeq(@, 1, first - 1) \o SubSeq(@, first + 1, Len(@))]

TickSessions(ctx) ==
    LET c == TickFrom(ctx, 1) IN
    [c EXCEPT !.sessions = SelectSeq(@, LAMBDA x : ~x.is_closed)]

\* ------------------------------------------- the fields of a datagram
\* A numeric field as it comes out of split_lrcp_message: a sequence of
\* characters.  int() strips blanks, takes one sign and digits with single
\* underscores between them, and raises ValueError on anything else.
Digits == <<"0", "1", "2", "3", "4", "5", "6", "7", "8", "9">>
IsDigit(c) == \E d \in 1..10 : Digits[d] = c
DigitVal(c) == (CHOOSE d \in 1..10 : Digits[d] = c) - 1

RECURSIVE LStrip(_)
LStrip(t) == IF t # <<>> /\ Head(t) = " " THEN LStrip(Tail(t)) ELSE t

RECURSIVE RStrip(_)
RStrip(t) ==
    IF t # <<>> /\ t[Len(t)] = " " THEN RStrip(SubSeq(t, 1, Len(t) - 1)) ELSE t

\* the digits of a literal, [big |-> the value is 2^31 or more, n |-> the value]
RECURSIVE DigitsValue(_, _)
DigitsValue(t, acc) ==
    IF t = <<>> THEN acc
    ELSE IF Head(t) = "_" THEN DigitsValue(Tail(t), acc)
    ELSE LET d == DigitVal(Head(t)) IN
         IF acc.big \/ acc.n > (MAX_INT_PRED - d) \div 10
         THEN DigitsValue(Tail(t), [big |-> TRUE, n |-> MAX_INT_PRED])
         ELSE DigitsValue(Tail(t), [big |-> FALSE, n |-> acc.n * 10 + d])

\* int(text): ok is FALSE for ValueError; big says that the value is
\* MAX_INT or more
ParseInt(text) ==
    LET t == RStrip(LStrip(text))
        signed == t # <<>> /\ Head(t) \in {"+", "-"}
        body == IF signed THEN Tail(t) ELSE t
        ok == /\ body # <<>>
              /\ IsDigit(body[1]) /\ IsDigit(body[Len(body)])
              /\ \A k \in 1..Len(body) : IsDigit(body[k]) \/ body[k] = "_"
              /\ \A k \in 1..(Len(body) - 1) : ~(body[k] = "_" /\ body[k + 1] = "_")
        v == IF ok THEN DigitsValue(body, [big |-> FALSE, n |-> 0])
             ELSE [big |-> FALSE, n |-> 0]
        negative == signed /\ Head(t) = "-"
    IN  [ok |-> ok,
         big |-> v.big /\ ~negative,
         n |-> IF negative THEN 0 - v.n ELSE v.n]

\* a datagram split into its command and the texts of its fields
Text(cmd, sid, num, data) == [cmd |-> cmd, sid |-> sid, num |-> num, data |-> data]

\* handle_packet from the parsing of the session id on
HandleText(ctx, t, addr) ==
    LET sid == ParseInt(t.sid) IN
    IF ~sid.ok \/ sid.big THEN ctx
    ELSE IF t.cmd \in {"connect", "close"}
    THEN HandlePacket(ctx, Packet(t.cmd, sid.n, 0, <<>>), addr)
    ELSE LET i == Find(ctx.sessions, sid.n)
             num == ParseInt(t.num)
         IN  IF i = 0 \/ ctx.sessions[i].addr # addr
             THEN HandlePacket(ctx, Packet(t.cmd, sid.n, 0, t.data), addr)
             ELSE IF ~num.ok \/ num.big
             THEN OnSession(ctx, i, Touch([s |-> ctx.sessions[i], out |-> ctx.out]))
             ELSE HandlePacket(ctx, Packet(t.cmd, sid.n, num.n, t.data), addr)

\* A datagram as received: a sequence of characters, in which the word of
\* the command stands as one element.
WordLen(c) ==
    IF c = "connect" THEN 7 ELSE IF c = "close" THEN 5
    ELSE IF c = "data" THEN 4 ELSE IF c = "ack" THEN 3 ELSE 1

RECURSIVE WireLen(_)
WireLen(msg) == IF msg = <<>> THEN 0 ELSE WordLen(Head(msg)) + WireLen(Tail(msg))

\* the while loop of split_lrcp_message from index i on (i counts from 1
\* here), length the index of the closing slash
RECURSIVE SplitFrom(_, _, _, _, _)
SplitFrom(msg, i, length, parts, current_part) ==
    IF i >= length THEN Append(parts, current_part)
    ELSE IF msg[i] = "\\"
    THEN IF i + 1 < length
         THEN SplitFrom(msg, i + 2, length, parts, current_part \o <<msg[i], msg[i + 1]>>)
         ELSE SplitFrom(msg, i + 1, length, parts, Append(current_part, msg[i]))
    ELSE IF msg[i] = "/"
    THEN SplitFrom(msg, i + 1, length, Append(parts, current_part), <<>>)
    ELSE SplitFrom(msg, i + 1, length, parts, Append(current_part, msg[i]))

\* split_lrcp_message: ok is FALSE for None
SplitLrcpMessage(msg) ==
    IF msg = <<>> \/ msg[1] # "/" \/ msg[Len(msg)] # "/"
    THEN [ok |-> FALSE, parts |-> <<>>]
    ELSE [ok |-> TRUE, parts |-> SplitFrom(msg, 2, Len(msg), <<>>, <<>>)]

\* handle_packet on the datagram as received
HandleRaw(ctx, msg, addr) ==
    IF WireLen(msg) > MAX_PACKET_SIZE THEN ctx
    ELSE LET sp == SplitLrcpMessage(msg)
             parts == sp.parts
             cmd == IF Len(parts[1]) = 1 THEN parts[1][1] ELSE ""
         IN  IF ~sp.ok THEN ctx
             ELSE IF cmd \in {"connect", "close"}
             THEN IF Len(parts) # 2 THEN ctx
                  ELSE HandleText(ctx, Text(cmd, parts[2], <<>>, <<>>), addr)
             ELSE IF cmd = "ack"
             THEN IF Len(parts) # 3 THEN ctx
                  ELSE HandleText(ctx, Text(cmd, parts[2], parts[3], <<>>), addr)
             ELSE IF cmd = "data"
             THEN IF Len(parts) # 4 THEN ctx
                  ELSE HandleText(ctx, Text(cmd, parts[2], parts[3], parts[4]), addr)
             ELSE ctx

\* ------------------------------------------------------ LRCPServer.run
SessionIds == {1, 2}
Addrs == {1, 2}
\* the session that is sent data; the other one is sent connect, ack and close
DataSessionIds == {1}
\* escaped payloads of the data packets received: a byte, and an escaped
\* slash that ends a line
DataPayloads == {<<"a">>, <<"\\", "/", "\n">>}
\* the numeric field of the data and ack packets received
Nums == (-1)..(MaxStream + 1)

Packets ==
    {Packet(cmd, sid, 0, <<>>) : cmd \in {"connect", "close"}, sid \in SessionIds}
    \cup {Packet("ack", sid, n, <<>>) : sid \in SessionIds, n \in Nums}
    \cup {Packet("data", sid, n, d) : sid \in DataSessionIds, n \in Nums, d \in DataPayloads}

Ctx == [sessions |-> sessions, out |-> <<>>]

SetCtx(ctx) ==
    \E c \in {ctx} :
        /\ sessions' = c.sessions
        /\ out' = c.out

\* One iteration of run() in which recvfrom returns a datagram: handle_packet,
\* then tick_sessions.
Receive(pkt, addr) ==
    /\ SetCtx(TickSessions(HandlePacket(Ctx, pkt, addr)))
    /\ UNCHANGED vars

\* One iteration of run() in which select times out: tick_sessions alone.
TickPass ==
    /\ SetCtx(TickSessions(Ctx))
    /\ UNCHANGED vars

\* Time passes between two iterations: the ages of a session grow.
Elapse ==
    /\ \E i \in 1..Len(sessions) :
          \E a \in 0..1, t \in 0..2 :
             /\ a >= sessions[i].last_activity_age
             /\ t >= sessions[i].last_retransmit_age
             /\ <<a, t>> # <<sessions[i].last_activity_age, sessions[i].last_retransmit_age>>
             /\ sessions' = [sessions EXCEPT ![i].last_activity_age = a,
                                             ![i].last_retransmit_age = t]
    /\ out' = <<>>
    /\ UNCHANGED vars

\* The streams are unbounded in the program; a step that would take a
\* session past the bound is left out.
StreamBounded(maxStream) ==
    \A i \in 1..Len(sessions') : sessions'[i].bytes_received <= maxStream

LrcpNext ==
    \/ \E pkt \in Packets, addr \in Addrs :
          Receive(pkt, addr) /\ StreamBounded(MaxStream) /\ UNCHANGED peer_vars
    \/ TickPass /\ UNCHANGED peer_vars
    \/ Elapse /\ UNCHANGED peer_vars

LrcpSpec == Init /\ [][LrcpNext]_all_vars

\* ------------------------------------------- datagrams with any fields
TextMaxStream == 1
MaxIntText == <<"2", "1", "4", "7", "4", "8", "3", "6", "4", "8">>
SidTexts == {<<"1">>, <<"-", "1">>, <<"+", "1">>, <<>>, <<"x">>, MaxIntText}
NumTexts == {<<"0">>, <<"1">>, <<"-", "1">>, <<" ", "1">>, <<"0", "_", "0">>,
             <<>>, <<"x">>, <<"1", "x">>, MaxIntText}
\* escaped payloads: a byte, a backslash that ends the payload, a backslash
\* before a byte, a slash that is not escaped
TextPayloads == {<<"a">>, <<"\\">>, <<"\\", "a">>, <<"a", "/", "a">>}
Texts ==
    {Text(cmd, sid, <<>>, <<>>) : cmd \in {"connect", "close"}, sid \in SidTexts}
    \cup {Text("ack", sid, n, <<>>) : sid \in SidTexts, n \in NumTexts}
    \cup {Text("data", sid, n, d) : sid \in SidTexts, n \in NumTexts, d \in TextPayloads}

\* the datagram of a command and its fields
Raw(t) ==
    <<"/", t.cmd, "/">> \o t.sid \o <<"/">>
    \o (IF t.cmd \in {"ack", "data"} THEN t.num \o <<"/">> ELSE <<>>)
    \o (IF t.cmd = "data" THEN t.data \o <<"/">> ELSE <<>>)

ReceiveText(t, addr) ==
    /\ SetCtx(TickSessions(HandleRaw(Ctx, Raw(t), addr)))
    /\ UNCHANGED vars

\* the datagrams that arrive: those whose fields are among these
Arriving ==
    {t \in Texts : /\ t.sid \in {<<"1">>, <<"-", "1">>}
                   /\ t.num \in {<<>>, <<"0">>, <<"1">>, <<"x">>}
                   /\ t.data \in {<<>>, <<"a">>}}

TextNext ==
    \/ \E t \in Arriving, addr \in Addrs :
          ReceiveText(t, addr) /\ StreamBounded(TextMaxStream) /\ UNCHANGED peer_vars
    \/ TickPass /\ UNCHANGED peer_vars
    \/ Elapse /\ UNCHANGED peer_vars

TextSpec == Init /\ [][TextNext]_all_vars

\* ----------------------------------------------- sessions with long output
\* Sessions whose lines have left up to MaxBuffer bytes in tx_buffer: bytes
\* that cost one character on the wire, bytes that cost two, and a mix.
MaxBuffer == 1100
BufferByte(kind, i) ==
    IF kind = "plain" THEN "a"
    ELSE IF kind = "slashes" THEN "/"
    ELSE IF i % 3 = 0 THEN "\\" ELSE IF i % 3 = 1 THEN "a" ELSE "/"
Buffer(kind, len) == [i \in 1..len |-> IF i = len THEN "\n" ELSE BufferByte(kind, i)]
BufferKinds == {"plain", "slashes", "mixed"}
BufferLens == {1, 494, 495, 989, MaxBuffer}
\* the session ids and the counts of acknowledged bytes: one digit, a sign,
\* ten digits
BurstSessionIds == {1, -1, MAX_INT_PRED}
BurstAcked == {0, 99, 2147480000}
BurstSessions ==
    {[LRCPSession(sid, 1) EXCEPT !.bytes_sent_acked = acked,
                                 !.bytes_received = acked + len,
                                 !.tx_buffer = Buffer(kind, len),
                                 !.last_retransmit_age = 2] :
        sid \in BurstSessionIds, acked \in BurstAcked,
        kind \in BufferKinds, len \in BufferLens}

BurstInit ==
    /\ id_counter = 1
    /\ tie_breaker = 0
    /\ jobs = {}
    /\ job_objs = <<>>
    /\ queues = <<>>
    /\ waiters = <<>>
    /\ future = [c \in Clients |-> NoFuture]
    /\ must_cancel = [c \in Clients |-> FALSE]
    /\ get_queues = [c \in Clients |-> <<>>]
    /\ pc = [c \in Clients |-> "idle"]
    /\ eof = [c \in Clients |-> FALSE]
    /\ working_jobs = [c \in Clients |-> {}]
    /\ resp = NoResp
    /\ \E s \in BurstSessions : sessions = <<s>>
    /\ out = <<>>
    /\ peer = [state |-> "init", sent_acked |-> 0, received |-> <<>>]
    /\ peer_out = <<>>
    /\ destroyed = FALSE

\* the peer acknowledges some more of the bytes, or the same as before
BurstAckSteps == {0, 494, 495}
ReceiveAck(k) ==
    /\ sessions # <<>>
    /\ Receive(Packet("ack", sessions[1].session_id,
                      sessions[1].bytes_sent_acked + k, <<>>), sessions[1].addr)

BurstNext ==
    \/ \E k \in BurstAckSteps : ReceiveAck(k) /\ UNCHANGED peer_vars
    \/ TickPass /\ UNCHANGED peer_vars
    \/ Elapse /\ UNCHANGED peer_vars

BurstSpec == BurstInit /\ [][BurstNext]_all_vars

\* ------------------------------------- sessions with more than a window
\* Sessions whose tx_buffer holds a window's worth of bytes, one byte more,
\* and WindowBuffer bytes.
WindowBuffer == 4100
WindowLens == {SEND_WINDOW_SIZE, SEND_WINDOW_SIZE + 1, WindowBuffer}
WindowSessions ==
    {[LRCPSession(1, 1) EXCEPT !.bytes_sent_acked = acked,
                               !.bytes_received = acked + len,
                               !.tx_buffer = Buffer(kind, len),
                               !.last_retransmit_age = 2] :
        acked \in {0, 99}, kind \in BufferKinds, len \in WindowLens}

WindowInit ==
    /\ id_counter = 1
    /\ tie_breaker = 0
    /\ jobs = {}
    /\ job_objs = <<>>
    /\ queues = <<>>
    /\ waiters = <<>>
    /\ future = [c \in Clients |-> NoFuture]
    /\ must_cancel = [c \in Clients |-> FALSE]
    /\ get_queues = [c \in Clients |-> <<>>]
    /\ pc = [c \in Clients |-> "idle"]
    /\ eof = [c \in Clients |-> FALSE]
    /\ working_jobs = [c \in Clients |-> {}]
    /\ resp = NoResp
    /\ \E s \in WindowSessions : sessions = <<s>>
    /\ out = <<>>
    /\ peer = [state |-> "init", sent_acked |-> 0, received |-> <<>>]
    /\ peer_out = <<>>
    /\ destroyed = FALSE

\* the peer acknowledges most of a window, or the same as before
WindowAckSteps == {0, 3000}

WindowNext ==
    \/ \E k \in WindowAckSteps : ReceiveAck(k) /\ UNCHANGED peer_vars
    \/ TickPass /\ UNCHANGED peer_vars
    \/ Elapse /\ UNCHANGED peer_vars

WindowSpec == WindowInit /\ [][WindowNext]_all_vars

\* -------------------------------------------- a peer and a lossy channel
\* One peer, at PeerAddr, runs session PeerSession and sends PeerStream line
\* by line.  The channel holds what each side sent last: a datagram is lost
\* when its sender sends again before the other side takes it, and taken
\* twice when the other side takes it again.
PeerAddr == 1
PeerSession == 1
PeerLines == << <<"a", "b">>, <<"c">> >>

RECURSIVE StreamOf(_)
StreamOf(lines) ==
    IF lines = <<>> THEN <<>> ELSE Head(lines) \o <<"\n">> \o StreamOf(Tail(lines))

\* a line read backwards, and the stream of the lines read backwards
Backwards(line) == [i \in 1..Len(line) |-> line[Len(line) + 1 - i]]

RECURSIVE ReversedStreamOf(_)
ReversedStreamOf(lines) ==
    IF lines = <<>> THEN <<>>
    ELSE Backwards(Head(lines)) \o <<"\n">> \o ReversedStreamOf(Tail(lines))

PeerStream == StreamOf(PeerLines)
\* where line k starts in PeerStream
LineStart(k) == Len(StreamOf(SubSeq(PeerLines, 1, k - 1)))
PeerData(k) ==
    Packet("data", PeerSession, LineStart(k),
           EscapeRange(PeerStream, LineStart(k), LineStart(k + 1)))
PeerPackets ==
    {Packet("connect", PeerSession, 0, <<>>)}
    \cup {PeerData(k) : k \in 1..Len(PeerLines)}
    \cup {Packet("ack", PeerSession, n, <<>>) : n \in 0..Len(PeerStream)}

Destroyed ==
    destroyed \/ (Find(sessions, PeerSession) # 0 /\ Find(sessions', PeerSession) = 0)

\* the peer sends connect until it is answered (and a connect may arrive late)
PeerConnect ==
    /\ peer.state \in {"init", "open"}
    /\ peer_out' = <<Packet("connect", PeerSession, 0, <<>>)>>
    /\ UNCHANGED <<vars, sessions, out, peer, destroyed>>

\* the peer sends line k, again if it was sent before
PeerSend(k) ==
    /\ peer.state = "open"
    /\ peer_out' = <<PeerData(k)>>
    /\ UNCHANGED <<vars, sessions, out, peer, destroyed>>

\* the peer takes datagram d of those the server sent last
PeerRecv(d) ==
    /\ \E k \in 1..Len(out) : out[k] = d
    /\ d.to = PeerAddr
    /\ peer.state # "closed"
    /\ \/ /\ d.cmd = "ack"
          /\ peer' = [peer EXCEPT !.state = "open",
                                  !.sent_acked = IF d.num > @ THEN d.num ELSE @]
          /\ UNCHANGED peer_out
       \/ /\ d.cmd = "data"
          /\ peer.state = "open"
          /\ LET got == IF d.num = Len(peer.received)
                        THEN peer.received \o UnescapeData(d.data)
                        ELSE peer.received
             IN  /\ peer' = [peer EXCEPT !.received = got]
                 /\ peer_out' = <<Packet("ack", PeerSession, Len(got), <<>>)>>
       \/ /\ d.cmd = "close"
          /\ peer' = [peer EXCEPT !.state = "closed"]
          /\ peer_out' = <<>>
    /\ UNCHANGED <<vars, sessions, out, destroyed>>

\* the server takes packet pkt of those the peer sent last
LiveReceive(pkt) ==
    /\ \E k \in 1..Len(peer_out) : peer_out[k] = pkt
    /\ Receive(pkt, PeerAddr)
    /\ destroyed' = Destroyed
    /\ UNCHANGED <<peer, peer_out>>

LiveTick ==
    /\ TickPass
    /\ destroyed' = Destroyed
    /\ UNCHANGED <<peer, peer_out>>

LiveElapse == Elapse /\ UNCHANGED peer_vars

\* more than RETRANSMIT_TIMEOUT passes without a send
RetransmitDue ==
    /\ LiveElapse
    /\ \A i \in 1..Len(sessions') : sessions'[i].last_retransmit_age = 2

LrcpLiveNext ==
    \/ PeerConnect
    \/ \E k \in 1..Len(PeerLines) : PeerSend(k)
    \/ \E k \in 1..Len(out) : PeerRecv(out[k])
    \/ \E k \in 1..Len(peer_out) : LiveReceive(peer_out[k])
    \/ LiveTick
    \/ LiveElapse

\* the datagrams the server can send to the peer
ServerDatagrams ==
    {Datagram(PeerAddr, "close", PeerSession, 0, <<>>)}
    \cup {Datagram(PeerAddr, "ack", PeerSession, n, <<>>) : n \in 0..Len(PeerStream)}
    \cup {Datagram(PeerAddr, "data", PeerSession, p,
                   EscapeRange(ReversedStreamOf(PeerLines), p, q)) :
             p \in 0..Len(PeerStream), q \in 1..Len(PeerStream)}

\* a packet that opens the session, or that carries the next byte of the
\* stream or a higher acknowledgement
News(pkt) ==
    LET i == Find(sessions, PeerSession)
    IN  \/ i = 0 /\ pkt.cmd = "connect"
        \/ i # 0 /\ pkt.cmd = "data" /\ pkt.num = sessions[i].bytes_received
        \/ i # 0 /\ pkt.cmd = "ack" /\ pkt.num > sessions[i].bytes_sent_acked

\* the server takes such a packet
ReceiveNews == \E pkt \in PeerPackets : News(pkt) /\ LiveReceive(pkt)

\* such a packet is there to be taken: ReceiveNews is enabled, and it changes
\* the session
NewsThere == \E k \in 1..Len(peer_out) : News(peer_out[k])

\* the peer takes a datagram that changes what it knows
PeerNews == \E d \in ServerDatagrams : PeerRecv(d) /\ peer' # peer

\* the peer takes data it has already and acknowledges it again
PeerAcksAgain ==
    \E d \in ServerDatagrams : PeerRecv(d) /\ d.cmd = "data" /\ peer' = peer

\* The loop of run() keeps iterating and time keeps passing; the peer keeps
\* sending what is not acknowledged; the channel is fair: a datagram that is
\* sent again and again is taken in the end, so, of the datagrams that tell
\* the side that takes them something new, one is taken in the end (strong
\* fairness of ReceiveNews is written out with NewsThere for its ENABLED).
LrcpFairness ==
    /\ WF_all_vars(LiveTick)
    /\ WF_all_vars(RetransmitDue)
    /\ WF_all_vars(PeerConnect /\ peer.state = "init")
    /\ \A k \in 1..Len(PeerLines) :
          WF_all_vars(PeerSend(k) /\ LineStart(k) = peer.sent_acked)
    /\ (<>[]~NewsThere) \/ ([]<><<ReceiveNews>>_all_vars)
    /\ SF_all_vars(PeerNews)
    /\ SF_all_vars(PeerAcksAgain)

LrcpLiveSpec == Init /\ [][LrcpLiveNext]_all_vars /\ LrcpFairness

\* ------------------------------------------------------------------ terms
Live(j) == j \in jobs /\ ~job_objs[j].is_deleted
InHeap(j) == \E q \in DOMAIN queues : \E e \in queues[q] : e[3] = j
InOwnHeap(j) ==
    /\ job_objs[j].queue_name \in DOMAIN queues
    /\ \E e \in queues[job_objs[j].queue_name] : e[3] = j
\* j sits in the handoff slot of a get that has not run since
InSlot(j) ==
    \E c \in Clients :
        pc[c] = "waiting" /\ future[c].state = "result" /\ future[c].job = j
Queued(j) == InOwnHeap(j) /\ job_objs[j].worker = None
InFlight(j) == job_objs[j].worker # None /\ ~InHeap(j)
Reserved(j) == InSlot(j) /\ ~InHeap(j) /\ job_objs[j].worker = None
Count(b) == IF b THEN 1 ELSE 0

\* C1: a job id is in at most one owned set, and it is in the owned set of
\* client c exactly when the job's worker is c.
C1_OwnedSetsMatchWorker ==
    \A j \in DOMAIN job_objs :
        /\ \A c \in Clients : (j \in working_jobs[c]) <=> (job_objs[j].worker = c)
        /\ \A c, d \in Clients :
              (j \in working_jobs[c] /\ j \in working_jobs[d]) => c = d

\* C1 witness: a job that was pushed into its heap is now owned by client 2
\* while connection 1 is closed.
C1_Witness ==
    \E j \in DOMAIN job_objs :
        /\ job_objs[j].worker = 2
        /\ j \in working_jobs[2]
        /\ pc[1] = "closed"
        /\ tie_breaker = 1

\* C2: every job that is not deleted is in exactly one of the states queued,
\* in-flight, reserved-for-waiter.
C2_ExactlyOneState ==
    \A j \in DOMAIN job_objs :
        Live(j) => Count(Queued(j)) + Count(InFlight(j)) + Count(Reserved(j)) = 1

\* C3: while A and B are both queued in one queue and A has the higher
\* priority, no step gives B to a worker (a get that takes one of them
\* takes A).
C3_PriorityOrder ==
    [][\A b \in jobs :
          ( /\ job_objs[b].worker = None
            /\ job_objs'[b].worker # None
            /\ Live(b) /\ Queued(b) )
          => ~\E a \in jobs :
                /\ job_objs[a].queue_name = job_objs[b].queue_name
                /\ job_objs[a].priority > job_objs[b].priority
                /\ Live(a) /\ Queued(a)]_vars

\* C3 witness: a get has just answered with a job of priority 1 while a job
\* of priority 0 waits in the same heap next to the entry of a deleted job.
C3_Witness ==
    /\ resp.request = "get"
    /\ resp.status = "ok"
    /\ resp.pri = 1
    /\ resp.queue \in DOMAIN queues
    /\ \E b \in DOMAIN job_objs :
          /\ Live(b) /\ Queued(b)
          /\ job_objs[b].queue_name = resp.queue
          /\ job_objs[b].priority = 0
    /\ \E e \in queues[resp.queue] : job_objs[e[3]].is_deleted

\* C4: when a get without wait answers no-job, no heap of a queue it named
\* holds a job that is neither deleted nor assigned.
C4_NoJobMeansEmpty ==
    [][\A c \in Clients, qs \in QueueLists :
          (HandleGet(c, qs, FALSE) /\ resp'.status = "no-job")
          => \A i \in 1..Len(qs) :
                qs[i] \in DOMAIN queues' =>
                   \A e \in queues'[qs[i]] :
                      job_objs'[e[3]].is_deleted \/ job_objs'[e[3]].worker # None]_vars

\* C5: a put on a queue with a live waiter hands the new job to such a
\* waiter and keeps it out of the heap, and the get of a waiter that holds a
\* job in its slot answers ok with that job.
C5_PutWakesWaiter ==
    [][ /\ \A c \in Clients, q \in QueueNames, pri \in Priorities, p \in Payloads :
             ( /\ HandlePut(c, q, pri, p)
               /\ q \in DOMAIN waiters
               /\ \E f \in waiters[q] : future[f].state = "pending" )
             => /\ \E f \in waiters[q] :
                      /\ future[f].state = "pending"
                      /\ future'[f] = [state |-> "result", job |-> id_counter]
                /\ queues' = queues
        /\ \A c \in Clients :
             (pc[c] = "waiting" /\ future[c].state = "result" /\ pc'[c] # "waiting")
             => resp' = ToJson(job_objs[future[c].job]) ]_vars

\* C6: once a client has disconnected and its handler has nothing left to
\* run, no live job is assigned to it.
C6_DisconnectReclaims ==
    \A c \in Clients :
        ( /\ eof[c]
          /\ \/ pc[c] = "closed"
             \/ pc[c] = "waiting" /\ future[c].state = "pending" )
        => \A j \in DOMAIN job_objs : Live(j) => job_objs[j].worker # c

\* C7: the waiter of a client that disconnected during its suspended get
\* is in no waiter set, and no step hands a job to it.
C7_DisconnectDiscardsWaiter ==
    [][\A c \in Clients :
          (eof[c] /\ pc[c] = "waiting" /\ future[c].state = "pending")
          => /\ future'[c].state # "result"
             /\ \A q \in DOMAIN waiters : c \notin waiters[q]]_vars

\* C8: a live job is in a heap, owned by a worker, or in the slot of a get
\* that has yet to run: a cancelled get leaves no job outside all three.
C8_NoLeak ==
    \A j \in DOMAIN job_objs :
        Live(j) => InHeap(j) \/ job_objs[j].worker # None \/ InSlot(j)

\* C9: no get or put answers ok with the id of a deleted job.
C9_DeletedIdNeverObserved ==
    (resp.status = "ok" /\ resp.request \in {"get", "put"})
    => ~job_objs[resp.id].is_deleted

\* C10: delete answers ok exactly when the job exists and is not deleted;
\* it then leaves the job deleted, out of the lookup and out of every owned
\* set; a delete or abort of an id that is already deleted answers no-job.
C10_Delete ==
    [][ /\ resp'.request = "delete" =>
             LET j == resp'.id IN
             /\ (resp'.status = "ok") <=> Live(j)
             /\ resp'.status = "ok" =>
                   /\ job_objs'[j].is_deleted
                   /\ j \notin jobs'
                   /\ job_objs'[j].worker = None
                   /\ \A c \in Clients : j \notin working_jobs'[c]
             /\ resp'.status # "ok" => UNCHANGED <<jobs, job_objs, working_jobs>>
        /\ \A j \in DOMAIN job_objs :
             ( /\ job_objs[j].is_deleted
               /\ resp'.request \in {"delete", "abort"}
               /\ resp'.id = j )
             => resp'.status = "no-job" ]_vars

\* C10 witness: an abort of a job that was pushed, taken and then deleted has
\* just been answered no-job, and no owned set holds the job.
C10_Witness ==
    /\ resp.request = "abort"
    /\ resp.status = "no-job"
    /\ resp.id \in DOMAIN job_objs
    /\ job_objs[resp.id].is_deleted
    /\ tie_breaker = 1
    /\ \A c \in Clients : working_jobs[c] = {}

\* C11: an abort by client c answers ok exactly when the job is in the lookup,
\* not deleted and its worker is c; every other abort (unknown id, deleted,
\* queued, reserved for a waiter, owned by another client) answers no-job and
\* leaves the heaps, the waiter sets, every job and every owned set unchanged.
C11_AbortOnlyByOwner ==
    [][\A c \in Clients, j \in 1..MaxJobs :
          HandleAbort(c, j)
          => /\ (resp'.status = "ok") <=> (Live(j) /\ job_objs[j].worker = c)
             /\ resp'.status \in {"ok", "no-job"}
             /\ resp'.status = "no-job" =>
                   UNCHANGED <<jobs, job_objs, queues, waiters, future,
                               working_jobs, id_counter, tie_breaker>>]_vars

\* C11 witness: an abort of a live job that another client owns has just been
\* answered no-job.
C11_Witness ==
    /\ resp.request = "abort"
    /\ resp.status = "no-job"
    /\ resp.id \in jobs
    /\ job_objs[resp.id].worker # None
    /\ resp.id \in working_jobs[job_objs[resp.id].worker]

\* C12: after an abort answered ok the job keeps its id, priority, queue and
\* payload and is in the slot of a waiter of its queue or back in its
\* queue's heap without a worker; a get on that queue that follows the abort
\* of a job pushed back into the heap answers ok (with that job when the
\* heap holds no other job).
C12_AbortedJobAvailable ==
    [][ /\ (resp'.request = "abort" /\ resp'.status = "ok") =>
             LET j == resp'.id IN
             /\ job_objs' = [job_objs EXCEPT ![j].worker = None]
             /\ \/ \E f \in Clients :
                      /\ future[f].state = "pending"
                      /\ future'[f] = [state |-> "result", job |-> j]
                      /\ queues' = queues
                \/ /\ ~\E f \in Clients :
                         /\ job_objs[j].queue_name \in DOMAIN waiters
                         /\ f \in waiters[job_objs[j].queue_name]
                         /\ future[f].state = "pending"
                   /\ job_objs[j].queue_name \in DOMAIN queues'
                   /\ \E e \in queues'[job_objs[j].queue_name] : e[3] = j
        /\ \A c \in Clients :
             ( /\ resp.request = "abort"
               /\ resp.status = "ok"
               /\ Queued(resp.id)
               /\ HandleGet(c, <<job_objs[resp.id].queue_name>>, FALSE) )
             => /\ resp'.status = "ok"
                /\ Cardinality(queues[job_objs[resp.id].queue_name]) = 1
                      => resp'.id = resp.id ]_vars

\* A line with a structural or type violation: no valid JSON, no object, an
\* unknown or missing request, a missing or wrong-typed field, a negative
\* priority.
Violation(line) ==
    \/ line.json # "object"
    \/ line.request \notin {StrVal("put"), StrVal("get"), StrVal("delete"), StrVal("abort")}
    \/ /\ line.request = StrVal("put")
       /\ \/ line.queue.type # "str"
          \/ line.pri.type # "int"
          \/ line.pri.n < 0
          \/ line.job.type = "absent"
    \/ line.request = StrVal("get") /\ line.queues.type # "list"
    \/ line.request \in {StrVal("delete"), StrVal("abort")} /\ line.id.type # "int"

\* C13: a request line with a structural or type violation is answered with
\* status error, changes nothing of the store and leaves the connection
\* open for the next line.
C13_ViolationAnsweredOpen ==
    [][\A c \in Clients, line \in RequestLines :
          (Violation(line) /\ HandleLine(c, line))
          => /\ resp'.status = "error"
             /\ pc'[c] = "idle"
             /\ UNCHANGED <<jobs, job_objs, queues, waiters, working_jobs>>]_vars

\* C14: the id a put returns is positive and greater than the id of every
\* job constructed before it, deleted or not, whichever client and queue.
C14_IdsIncrease ==
    [][(resp'.request = "put" /\ resp'.status = "ok")
       => /\ resp'.id > 0
          /\ \A j \in DOMAIN job_objs : resp'.id > j
          /\ resp'.id \in DOMAIN job_objs'
          /\ id_counter' > resp'.id]_vars

\* C14 witness: a put has just returned an id above 1 after job 1 was deleted.
C14_Witness ==
    /\ resp.request = "put"
    /\ resp.status = "ok"
    /\ resp.id > 1
    /\ 1 \in DOMAIN job_objs
    /\ job_objs[1].is_deleted

\* ------------------------------------------------------------ LRCP terms
DataPackets == {pkt \in Packets : pkt.cmd = "data"}
ConnectPackets == {pkt \in Packets : pkt.cmd = "connect"}
\* the session of an id in a session dict
SessionOf(ss, sid) == ss[Find(ss, sid)]
Has(ss, sid) == Find(ss, sid) # 0
NumberOf(ss, sid) == Cardinality({i \in 1..Len(ss) : ss[i].session_id = sid})
Sent(o, dgram) == \E k \in 1..Len(o) : o[k] = dgram

\* C15: a data packet from the peer of a session is taken exactly when its
\* pos is bytes_received, which then grows by the length of the unescaped
\* payload, appended to rx_buffer before the lines are consumed; with any
\* other pos bytes_received and rx_buffer stay as they are; both ways the
\* packet is answered with an ack of the resulting bytes_received.
C15_InOrderOnly ==
    \A pkt \in DataPackets, addr \in Addrs :
        (Has(sessions, pkt.sid) /\ SessionOf(sessions, pkt.sid).addr = addr)
        => LET s == SessionOf(sessions, pkt.sid)
               c == HandlePacket(Ctx, pkt, addr)
               t == SessionOf(c.sessions, pkt.sid)
               payload == UnescapeData(pkt.data)
           IN  /\ Has(c.sessions, pkt.sid)
               /\ pkt.num # s.bytes_received =>
                     /\ t.bytes_received = s.bytes_received
                     /\ t.rx_buffer = s.rx_buffer
                     /\ t.tx_buffer = s.tx_buffer
               /\ pkt.num = s.bytes_received =>
                     /\ t.bytes_received = s.bytes_received + Len(payload)
                     /\ ConsumeLines([s EXCEPT !.rx_buffer = @ \o payload]).rx_buffer
                           = t.rx_buffer
               /\ Sent(c.out, Datagram(addr, "ack", pkt.sid, t.bytes_received, <<>>))

\* C15 witness: a session that took one byte at pos 0 and a line end at pos 1
\* and has just answered a data packet with an ack of 3.
C15_Witness ==
    /\ Has(sessions, 1)
    /\ SessionOf(sessions, 1).bytes_received = 3
    /\ SessionOf(sessions, 1).tx_buffer = <<"/", "a", "\n">>
    /\ out = <<Datagram(SessionOf(sessions, 1).addr, "ack", 1, 3, <<>>)>>

\* C16: over every step, a session that stays in the dict keeps or raises
\* its bytes_received and its bytes_sent_acked.
C16_CountersNeverDecrease ==
    [][\A i \in 1..Len(sessions) :
          Has(sessions', sessions[i].session_id)
          => /\ SessionOf(sessions', sessions[i].session_id).bytes_received
                   >= sessions[i].bytes_received
             /\ SessionOf(sessions', sessions[i].session_id).bytes_sent_acked
                   >= sessions[i].bytes_sent_acked]_all_vars

\* C16 witness: a session whose peer has acknowledged two of the three bytes
\* sent to it.
C16_Witness ==
    /\ Has(sessions, 1)
    /\ SessionOf(sessions, 1).bytes_sent_acked = 2
    /\ SessionOf(sessions, 1).tx_buffer = <<"\n">>
    /\ SessionOf(sessions, 1).bytes_received = 3

\* C19: a connect leaves exactly one session for its id: a new session bound
\* to the sender when the id had none, the unchanged session when it had
\* one (bytes_received, bytes_sent_acked, tx_buffer and rx_buffer included);
\* a connect that creates the session or comes from its peer is answered
\* with one ack of the session's bytes_received; no dict ever holds two
\* sessions of one id.
C19_ConnectIdempotent ==
    /\ \A sid \in SessionIds : NumberOf(sessions, sid) <= 1
    /\ \A pkt \in ConnectPackets, addr \in Addrs :
          LET c == HandlePacket(Ctx, pkt, addr) IN
          /\ NumberOf(c.sessions, pkt.sid) = 1
          /\ Has(sessions, pkt.sid) => c.sessions = sessions
          /\ ~Has(sessions, pkt.sid) =>
                c.sessions = Append(sessions, LRCPSession(pkt.sid, addr))
          /\ (~Has(sessions, pkt.sid) \/ SessionOf(sessions, pkt.sid).addr = addr)
             => c.out = <<Datagram(addr, "ack", pkt.sid,
                                   SessionOf(c.sessions, pkt.sid).bytes_received, <<>>)>>

\* C19 witness: session 2, created more than the retransmit timeout ago, has
\* just answered a further connect with an ack, next to a session 1 that
\* has taken three bytes.
C19_Witness ==
    /\ Has(sessions, 1)
    /\ SessionOf(sessions, 1).bytes_received = 3
    /\ Has(sessions, 2)
    /\ SessionOf(sessions, 2).last_retransmit_age = 2
    /\ out = <<Datagram(SessionOf(sessions, 2).addr, "ack", 2, 0, <<>>)>>

\* C20: the address of a session never changes, and an iteration that
\* handles a packet naming an existing session from another address than
\* the session's does what the tick pass alone does: the packet changes no
\* session and sends no datagram.
C20_OtherAddressDropped ==
    [][ /\ \A i \in 1..Len(sessions) :
             Has(sessions', sessions[i].session_id)
             => SessionOf(sessions', sessions[i].session_id).addr = sessions[i].addr
        /\ \A pkt \in Packets, addr \in Addrs :
             ( /\ Has(sessions, pkt.sid)
               /\ SessionOf(sessions, pkt.sid).addr # addr
               /\ Receive(pkt, addr) )
             => TickPass ]_all_vars

\* the peer has assembled the reverse of every line, in order
PeerHasAll == peer.received = ReversedStreamOf(PeerLines)

\* C17 as stated: the peer in the end holds the reverse of each line it sent.
C17_RoundTrip == <>PeerHasAll

\* C17, amended: the peer in the end holds the reverse of each line it sent,
\* in order and each followed by one newline, unless the server destroys
\* the session before that.
C17_RoundTripUnlessDestroyed == <>(PeerHasAll \/ destroyed)

\* C17 witness: the peer holds both reversed lines and no session was destroyed.
C17_Witness == PeerHasAll /\ ~destroyed /\ peer.sent_acked = Len(PeerStream)

\* byte n of the stream the server sends was placed into tx_buffer
Placed(n) ==
    /\ Has(sessions, PeerSession)
    /\ LET s == SessionOf(sessions, PeerSession)
       IN  s.bytes_sent_acked + Len(s.tx_buffer) >= n

\* an ack of the peer covers byte n
Covered(n) ==
    /\ Has(sessions, PeerSession)
    /\ SessionOf(sessions, PeerSession).bytes_sent_acked >= n

\* tick finds unacknowledged bytes whose last send is more than the
\* retransmit timeout ago, in a session that has not expired
TickDue ==
    /\ LiveTick
    /\ Has(sessions, PeerSession)
    /\ LET s == SessionOf(sessions, PeerSession)
       IN  s.last_activity_age = 0 /\ s.tx_buffer # <<>> /\ s.last_retransmit_age = 2

\* the server sent the unacknowledged bytes, from the first one on
Retransmitted ==
    LET s == SessionOf(sessions, PeerSession)
    IN  Sent(out', Datagram(s.addr, "data", s.session_id, s.bytes_sent_acked,
                            EscapeRange(s.tx_buffer, 0, Len(s.tx_buffer))))

AckPackets == {pkt \in Packets : pkt.cmd = "ack"}

\* C21: an ack from the peer of a session whose length is above
\* bytes_sent_acked + len(tx_buffer) makes handle_packet send exactly one
\* datagram, close/<sid> to the peer, and the tick pass of the same
\* iteration removes the session from the dict.
C21_ImpossibleAckCloses ==
    \A pkt \in AckPackets, addr \in Addrs :
        ( /\ Has(sessions, pkt.sid)
          /\ SessionOf(sessions, pkt.sid).addr = addr
          /\ pkt.num > SessionOf(sessions, pkt.sid).bytes_sent_acked
                         + Len(SessionOf(sessions, pkt.sid).tx_buffer) )
        => LET c == HandlePacket(Ctx, pkt, addr) IN
           /\ c.out = <<Datagram(addr, "close", pkt.sid, 0, <<>>)>>
           /\ ~Has(TickSessions(c).sessions, pkt.sid)

\* C21 witness: session 1 is gone and the iteration sent close/1 and then,
\* from the tick of the closed session, its unacknowledged bytes.
C21_Witness ==
    /\ ~Has(sessions, 1)
    /\ Len(out) = 2
    /\ out[1].cmd = "close" /\ out[1].sid = 1
    /\ out[2].cmd = "data" /\ out[2].sid = 1

\* C22: once a step has removed a session from the dict (peer close, ack
\* above the total sent, or expiry), any packet for that id from the peer
\* the session had, whatever its command, is answered with exactly one
\* close/<sid> and changes no session.
C22_ClosedAnswersClose ==
    [][\A i \in 1..Len(sessions) :
          ~Has(sessions', sessions[i].session_id)
          => \A pkt \in Packets :
                pkt.sid = sessions[i].session_id
                => HandlePacket(Ctx', pkt, sessions[i].addr)
                     = [sessions |-> sessions',
                        out |-> <<Datagram(sessions[i].addr, "close", pkt.sid, 0, <<>>)>>]
      ]_all_vars

\* C23: a data or ack packet for an id that has no session is answered with
\* exactly one datagram, close/<sid> to the sender, and leaves the dict as
\* it is.
C23_UnknownSessionClose ==
    \A pkt \in DataPackets \cup AckPackets, addr \in Addrs :
        ~Has(sessions, pkt.sid)
        => HandlePacket(Ctx, pkt, addr)
             = [sessions |-> sessions,
                out |-> <<Datagram(addr, "close", pkt.sid, 0, <<>>)>>]

\* C23 witness: the server has just sent close/2 to address 2 while the dict
\* holds session 1 alone, bound to address 1, with three bytes taken.
C23_Witness ==
    /\ out = <<Datagram(2, "close", 2, 0, <<>>)>>
    /\ Len(sessions) = 1
    /\ sessions[1].session_id = 1
    /\ sessions[1].addr = 1
    /\ sessions[1].bytes_received = 3

\* C24: the tick pass that finds a session whose last packet from its peer
\* is more than the session expiry ago removes the session from the dict
\* and sends no datagram for it.
C24_ExpirySilent ==
    \A i \in 1..Len(sessions) :
        sessions[i].last_activity_age = 1
        => LET c == TickSessions(Ctx) IN
           /\ ~Has(c.sessions, sessions[i].session_id)
           /\ \A k \in 1..Len(c.out) : c.out[k].sid # sessions[i].session_id

\* C24 witness: a session that has expired while it holds unacknowledged
\* bytes whose retransmission is due.
C24_Witness ==
    /\ Has(sessions, 1)
    /\ SessionOf(sessions, 1).last_activity_age = 1
    /\ SessionOf(sessions, 1).last_retransmit_age = 2
    /\ SessionOf(sessions, 1).tx_buffer # <<>>

\* a non-negative decimal integer below 2^31: digits alone, at least one,
\* and a value of at most 2147483647
MaxIntPredText == <<"2", "1", "4", "7", "4", "8", "3", "6", "4", "7">>
AtMost(a, b) ==
    \/ a = b
    \/ \E k \in 1..Len(a) :
          /\ \A j \in 1..(k - 1) : a[j] = b[j]
          /\ DigitVal(a[k]) < DigitVal(b[k])
WellFormed(text) ==
    /\ text # <<>>
    /\ \A k \in 1..Len(text) : IsDigit(text[k])
    /\ \/ Len(text) < Len(MaxIntPredText)
       \/ Len(text) = Len(MaxIntPredText) /\ AtMost(text, MaxIntPredText)
Malformed(t) ==
    \/ ~WellFormed(t.sid)
    \/ t.cmd \in {"data", "ack"} /\ ~WellFormed(t.num)

\* C25: a datagram whose session id, pos or length is not a non-negative
\* decimal integer below 2^31 is dropped: handle_packet changes no session,
\* creates none and sends nothing.
C25_MalformedDropped ==
    \A t \in Texts, addr \in Addrs :
        Malformed(t) => HandleRaw(Ctx, Raw(t), addr) = Ctx

\* the payload has, from index i on, a backslash that is followed neither by
\* a backslash nor by a slash
RECURSIVE HasStray(_, _)
HasStray(data, i) ==
    IF i > Len(data) THEN FALSE
    ELSE IF data[i] # "\\" THEN HasStray(data, i + 1)
    ELSE IF i + 1 <= Len(data) /\ data[i + 1] \in {"\\", "/"} THEN HasStray(data, i + 2)
    ELSE TRUE

\* C26: a data packet with well-formed fields for an existing session whose
\* payload has a backslash followed neither by a backslash nor by a slash
\* is dropped: the session keeps its bytes_received, its rx_buffer and its
\* tx_buffer.
C26_StrayBackslashDropped ==
    \A t \in Texts, addr \in Addrs :
        ( /\ t.cmd = "data"
          /\ ~Malformed(t)
          /\ HasStray(t.data, 1)
          /\ Has(sessions, ParseInt(t.sid).n) )
        => LET sid == ParseInt(t.sid).n
               c == HandleRaw(Ctx, Raw(t), addr)
           IN  /\ Has(c.sessions, sid)
               /\ SessionOf(c.sessions, sid).bytes_received
                     = SessionOf(sessions, sid).bytes_received
               /\ SessionOf(c.sessions, sid).rx_buffer = SessionOf(sessions, sid).rx_buffer
               /\ SessionOf(c.sessions, sid).tx_buffer = SessionOf(sessions, sid).tx_buffer

\* the number of characters of n written in decimal
Width(n) ==
    IF n < 0 THEN 1 + Cardinality({k \in 1..10 : 0 - n >= 10 ^ (k - 1)})
    ELSE IF n = 0 THEN 1
    ELSE Cardinality({k \in 1..10 : n >= 10 ^ (k - 1)})

\* the size on the wire of /data/<sid>/<pos>/<payload>/
WireSize(d) == 6 + Width(d.sid) + 1 + Width(d.num) + 1 + Len(d.data) + 1

\* C27: every data packet the server has sent is at most 999 bytes long on
\* the wire, the header, the escaped payload and the closing slash counted.
C27_DataFitsPacket ==
    \A k \in 1..Len(out) : out[k].cmd = "data" => WireSize(out[k]) <= 999

\* C27 witness: the server has sent a data packet of exactly 999 bytes and a
\* further one after it.
C27_Witness ==
    /\ Len(out) >= 2
    /\ out[1].cmd = "data" /\ WireSize(out[1]) = 999
    /\ out[2].cmd = "data"

\* C28 terms: the payloads of the data packets applied, with no line end, with
\* one, and with two line ends and bytes after the last.
LinePayloads ==
    DataPayloads \cup {<<"b">>, <<"\n">>, <<"b", "c", "\n">>,
                       <<"b", "\n", "c", "d", "\n", "e">>, <<"\n", "\n">>}
LineEnds(w) == {i \in 1..Len(w) : w[i] = "\n"}
LastLineEnd(w) ==
    IF LineEnds(w) = {} THEN 0
    ELSE CHOOSE i \in LineEnds(w) : \A j \in LineEnds(w) : j <= i
\* the first byte of the line that position i of w lies in, and its line end
LineFirst(w, i) ==
    IF \E j \in LineEnds(w) : j < i
    THEN 1 + CHOOSE j \in LineEnds(w) : j < i /\ \A k \in LineEnds(w) : k < i => k <= j
    ELSE 1
LineEnd(w, i) ==
    CHOOSE j \in LineEnds(w) : j >= i /\ \A k \in LineEnds(w) : k >= i => j <= k
\* every complete line of w turned round, its newline in place
Applied(w) ==
    [i \in 1..LastLineEnd(w) |->
        IF w[i] = "\n" THEN "\n"
        ELSE w[LineFirst(w, i) + (LineEnd(w, i) - 1) - i]]

\* C28: when a session takes a data packet, tx_buffer grows by exactly the
\* complete lines of rx_buffer followed by the payload, each turned round and
\* followed by one newline, in order; the bytes after the last newline stay
\* in rx_buffer; with no newline nothing is appended, and a session with
\* nothing to send emits no data.
C28_LinesReversed ==
    \A i \in 1..Len(sessions), d \in LinePayloads :
        LET s == sessions[i]
            c == HandlePacket(Ctx, Packet("data", s.session_id, s.bytes_received, d), s.addr)
            t == SessionOf(c.sessions, s.session_id)
            w == s.rx_buffer \o UnescapeData(d)
        IN  /\ LineEnds(s.rx_buffer) = {}
            /\ Has(c.sessions, s.session_id)
            /\ t.tx_buffer = s.tx_buffer \o Applied(w)
            /\ t.rx_buffer = SubSeq(w, LastLineEnd(w) + 1, Len(w))
            /\ (LineEnds(w) = {} /\ s.tx_buffer = <<>>) =>
                   \A k \in 1..Len(c.out) : c.out[k].cmd # "data"

\* C28 witness: a line that came in two packets, "a" and then "/" with the
\* newline, has just been applied: the whole line turned round is sent.
C28_Witness ==
    /\ Has(sessions, 1)
    /\ SessionOf(sessions, 1).rx_buffer = <<>>
    /\ SessionOf(sessions, 1).tx_buffer = <<"/", "a", "\n">>
    /\ Len(out) = 2
    /\ out[1].cmd = "data" /\ out[1].num = 0
    /\ out[2].cmd = "ack" /\ out[2].num = 3

\* C29 terms: the insertion sequence of a queued job, and the jobs queued
\* with it in its queue at its priority.
SequenceOf(j) ==
    LET pq == queues[job_objs[j].queue_name] IN
    (CHOOSE e \in pq : e[3] = j)[2]
QueuedPeers(j) ==
    {a \in jobs \ {j} :
        /\ Live(a) /\ Queued(a)
        /\ job_objs[a].queue_name = job_objs[j].queue_name
        /\ job_objs[a].priority = job_objs[j].priority}

\* C29: a job queued once only; no step gives a queued job B to a worker
\* while a job of the same queue and priority is queued with a lower
\* insertion sequence; and a job that an abort puts back into its heap has
\* there a sequence above that of every job already queued with it.
C29_InsertionOrder ==
    [][/\ \A b \in jobs :
            (Live(b) /\ Queued(b)) =>
               Cardinality({e \in queues[job_objs[b].queue_name] : e[3] = b}) = 1
       /\ \A b \in jobs :
            ( /\ job_objs[b].worker = None
              /\ job_objs'[b].worker # None
              /\ Live(b) /\ Queued(b) )
            => \A a \in QueuedPeers(b) : SequenceOf(b) < SequenceOf(a)
       /\ \A b \in jobs :
            ( /\ job_objs[b].worker # None
              /\ resp'.request = "abort" /\ resp'.status = "ok" /\ resp'.id = b
              /\ (Live(b) /\ Queued(b))' )
            => \A a \in QueuedPeers(b) :
                  /\ (Live(a) /\ Queued(a))'
                  /\ SequenceOf(a)' = SequenceOf(a)
                  /\ SequenceOf(b)' > SequenceOf(a)]_vars

\* C29 witness: jobs 1 and 2 were put in this order in queue "q" with one
\* priority, job 1 was taken and aborted, and the get that followed has
\* just answered with job 2 while job 1 waits with its new sequence.
C29_Witness ==
    /\ resp.request = "get" /\ resp.status = "ok" /\ resp.id = 2
    /\ resp.queue = "q"
    /\ 1 \in jobs /\ Live(1) /\ Queued(1)
    /\ job_objs[1].queue_name = "q"
    /\ job_objs[1].priority = job_objs[2].priority
    /\ SequenceOf(1) = 2

\* C30 terms: the live jobs queued in the queues a get names
Candidates(qs) ==
    {a \in jobs : Live(a) /\ Queued(a)
                  /\ \E i \in 1..Len(qs) : job_objs[a].queue_name = qs[i]}

\* C30: the job a get over several queues answers with has the highest
\* priority of the live jobs queued in the queues named, and among those of
\* that priority the lowest insertion sequence, whatever the order of the
\* names in the request.
C30_BestAcrossQueues ==
    [][\A c \in Clients, qs \in QueueLists :
          (HandleGet(c, qs, FALSE) /\ resp'.status = "ok")
          => \A a \in Candidates(qs) :
                /\ job_objs[a].priority <= resp'.pri
                /\ job_objs[a].priority = resp'.pri
                      => SequenceOf(resp'.id) <= SequenceOf(a)]_vars

\* C31 terms: the queues whose waiter set holds the future of client c
RegisteredOn(c) == {q \in DOMAIN waiters : c \in waiters[q]}

\* C31: the step in which a woken waiter's get answers leaves its future in
\* no queue's waiter set, and in every state only a suspended get has its
\* future in a waiter set.
C31_WokenWaiterUnregistered ==
    [][/\ \A c \in Clients :
            (pc[c] = "waiting" /\ pc'[c] = "idle") => RegisteredOn(c)' = {}
       /\ \A c \in Clients : RegisteredOn(c) # {} => pc[c] = "waiting"]_vars

\* C31 witness: client 1 waits on "q" and "", the put on "q" has placed job 1
\* in its future and popped it from the waiter set of "q"; it is still in
\* the waiter set of "" until its get runs.
C31_Witness ==
    /\ pc[1] = "waiting"
    /\ get_queues[1] = <<"q", "">>
    /\ future[1] = [state |-> "result", job |-> 1]
    /\ RegisteredOn(1) = {""}

\* C32 terms: the futures of a queue's waiter set that are still pending, and
\* the futures that are completed
LiveWaiters(q) ==
    IF q \in DOMAIN waiters
    THEN {f \in waiters[q] : future[f].state = "pending"}
    ELSE {}
Completed(f) == future[f].state \in {"result", "cancelled"}

\* C32: a put or an abort that answers ok leaves every completed future as it
\* was; when the job's queue has a pending waiter, one of them gets the job,
\* no other future changes and no heap changes; when it has none, no future
\* changes and the job is queued in its heap.
C32_OneJobPerWaiter ==
    [][\A j \in 1..WMaxJobs :
          (resp'.status = "ok" /\ resp'.request \in {"put", "abort"} /\ resp'.id = j) =>
          LET q == job_objs'[j].queue_name
          IN  /\ \A f \in Clients : Completed(f) => future'[f] = future[f]
              /\ LiveWaiters(q) # {} =>
                    /\ \E f \in LiveWaiters(q) :
                          /\ future'[f] = [state |-> "result", job |-> j]
                          /\ \A g \in Clients \ {f} : future'[g] = future[g]
                    /\ queues' = queues
              /\ LiveWaiters(q) = {} =>
                    /\ future' = future
                    /\ (Live(j) /\ Queued(j))']_vars

\* C32 witness: client 2 waited on "q" and "", job 1 put on "q" sits in its
\* future, and job 2 put on "" has met that completed waiter in the waiter
\* set of "" and gone to the heap.
C32_Witness ==
    /\ pc[2] = "waiting"
    /\ future[2] = [state |-> "result", job |-> 1]
    /\ resp.request = "put" /\ resp.status = "ok" /\ resp.id = 2
    /\ job_objs[2].queue_name = ""
    /\ Live(2) /\ Queued(2)

\* C33 terms: the bytes of buf after its first n, and the datagrams of a
\* kind in an output
After(buf, n) == [i \in 1..(Len(buf) - n) |-> buf[n + i]]
DataSent(o) == {k \in 1..Len(o) : o[k].cmd = "data"}

\* C33: an ack from the peer with bytes_sent_acked < length <=
\* bytes_sent_acked + len(tx_buffer) cuts length - bytes_sent_acked bytes from
\* the head of tx_buffer, sets bytes_sent_acked to length and the retransmit
\* time to now; when bytes remain, the first datagram sent is a data packet
\* at position length that carries them; when none remain, no data is sent.
C33_AckAdvances ==
    \A i \in 1..Len(sessions), length \in Nums :
        LET s == sessions[i]
            c == HandlePacket(Ctx, Packet("ack", s.session_id, length, <<>>), s.addr)
            t == SessionOf(c.sessions, s.session_id)
            rest == After(s.tx_buffer, length - s.bytes_sent_acked)
        IN  (s.bytes_sent_acked < length /\ length <= s.bytes_sent_acked + Len(s.tx_buffer))
            => /\ Has(c.sessions, s.session_id)
               /\ ~t.is_closed
               /\ t.tx_buffer = rest
               /\ t.bytes_sent_acked = length
               /\ t.last_retransmit_age = 0
               /\ rest # <<>> =>
                     /\ Len(c.out) >= 1
                     /\ c.out[1] = Datagram(s.addr, "data", s.session_id, length, c.out[1].data)
                     /\ UnescapeData(c.out[1].data) = rest
               /\ rest = <<>> => c.out = <<>>

\* C33 witness: of the three bytes of the line "/a" sent back, the first has
\* been acknowledged; the other two went out again at position 1.
C33_Witness ==
    /\ Has(sessions, 1)
    /\ SessionOf(sessions, 1).bytes_sent_acked = 1
    /\ SessionOf(sessions, 1).tx_buffer = <<"a", "\n">>
    /\ out = <<Datagram(SessionOf(sessions, 1).addr, "data", 1, 1, <<"a", "\n">>)>>

\* C34: an ack from the peer with 0 <= length <= bytes_sent_acked changes
\* neither bytes_sent_acked nor tx_buffer; when bytes are pending and the
\* last retransmit is more than the debounce ago, the first datagram sent is
\* a data packet at position bytes_sent_acked that carries them.
C34_DuplicateAck ==
    \A i \in 1..Len(sessions), length \in Nums :
        LET s == sessions[i]
            c == HandlePacket(Ctx, Packet("ack", s.session_id, length, <<>>), s.addr)
            t == SessionOf(c.sessions, s.session_id)
        IN  (0 <= length /\ length <= s.bytes_sent_acked)
            => /\ Has(c.sessions, s.session_id)
               /\ t.bytes_sent_acked = s.bytes_sent_acked
               /\ t.tx_buffer = s.tx_buffer
               /\ (s.tx_buffer # <<>> /\ s.last_retransmit_age >= 1) =>
                     /\ Len(c.out) >= 1
                     /\ c.out[1] = Datagram(s.addr, "data", s.session_id,
                                            s.bytes_sent_acked, c.out[1].data)
                     /\ UnescapeData(c.out[1].data) = s.tx_buffer

\* C35 terms: the number of bytes an escaped payload stands for.  A
\* backslash introduces an escape when an even number of backslashes stands
\* right before it.
BackslashesBefore(d, i) ==
    CHOOSE n \in 0..(i - 1) :
        /\ \A k \in 1..n : d[i - k] = "\\"
        /\ n = i - 1 \/ d[i - 1 - n] # "\\"
RawLen(d) ==
    Len(d) - Cardinality({i \in 1..Len(d) :
                             d[i] = "\\" /\ BackslashesBefore(d, i) % 2 = 0})

\* C35: the data packets sent in one loop iteration for a session end at or
\* before offset 4000 of its tx_buffer, counted from bytes_sent_acked.
C35_WindowRespected ==
    \A k \in 1..Len(out) :
        (out[k].cmd = "data" /\ Has(sessions, out[k].sid))
        => out[k].num + RawLen(out[k].data)
              <= SessionOf(sessions, out[k].sid).bytes_sent_acked + 4000

\* C36 terms: a payload whose backslashes all escape a backslash or a slash
\* and whose slashes are all escaped; a datagram with well-formed fields
\* that names session s and comes from its peer
CleanPayload(d) ==
    /\ ~HasStray(d, 1)
    /\ \A k \in 1..Len(d) : d[k] = "/" => (k > 1 /\ BackslashesBefore(d, k) % 2 = 1)
ValidFor(t, addr, s) ==
    /\ ~Malformed(t)
    /\ t.cmd \in {"connect", "data", "ack"}
    /\ t.cmd = "data" => CleanPayload(t.data)
    /\ ParseInt(t.sid).n = s.session_id
    /\ addr = s.addr

\* C36: a valid connect, data or ack packet from the peer of a session sets
\* the session's last activity to now; a datagram that names the session and
\* has a malformed pos or length, or comes from another address, leaves the
\* session as it was, last activity included.
C36_ActivityByValidOnly ==
    \A t \in Texts, addr \in Addrs :
        LET c == HandleRaw(Ctx, Raw(t), addr) IN
        \A i \in 1..Len(sessions) :
            LET s == sessions[i] IN
            /\ (ValidFor(t, addr, s) /\ Has(c.sessions, s.session_id))
               => SessionOf(c.sessions, s.session_id).last_activity_age = 0
            /\ ( /\ WellFormed(t.sid)
                 /\ ParseInt(t.sid).n = s.session_id
                 /\ Malformed(t) \/ addr # s.addr )
               => (Has(c.sessions, s.session_id) /\ SessionOf(c.sessions, s.session_id) = s)

\* C37 terms: the entries of job j over all heaps
EntriesOf(j) ==
    {x \in UNION {{<<q, e>> : e \in queues[q]} : q \in DOMAIN queues} : x[2][3] = j}

\* C37: a job that is not deleted has at most one entry over all heaps, and
\* a job with a worker has none; a get answers with a job only when the job
\* had no worker, and a job loses its worker only to have none, by an abort,
\* a delete or the end of its worker's connection.
C37_OneEntryPerJob ==
    [][\A j \in DOMAIN job_objs :
          /\ Live(j) => Cardinality(EntriesOf(j)) <= 1
          /\ job_objs[j].worker # None => EntriesOf(j) = {}
          /\ (resp'.request = "get" /\ resp'.status = "ok" /\ resp'.id = j)
             => /\ job_objs[j].worker = None
                /\ job_objs'[j].worker # None
          /\ (job_objs[j].worker # None /\ job_objs'[j].worker # job_objs[j].worker)
             => /\ job_objs'[j].worker = None
                /\ \/ resp'.request \in {"abort", "delete"} /\ resp'.status = "ok" /\ resp'.id = j
                   \/ pc'[job_objs[j].worker] = "closed"]_vars

\* C37 witness: job 1 was pushed, returned by a get, aborted, pushed again
\* and has just been returned by a second get; no heap has an entry of it.
C37_Witness ==
    /\ resp.request = "get" /\ resp.status = "ok" /\ resp.id = 1
    /\ tie_breaker = 2
    /\ Live(1)
    /\ job_objs[1].worker # None
    /\ EntriesOf(1) = {}

\* C38 terms: the number of bytes the line application has appended for a
\* session: one for every byte of a complete line received, its newline
\* included
AppendedSoFar(s) == s.bytes_received - Len(s.rx_buffer)

\* C38: for every session of the dict, bytes_sent_acked + len(tx_buffer) is
\* the number of bytes appended so far; and over every step that keeps the
\* session, bytes_sent_acked moves forward by d >= 0 bytes within the old
\* buffer, and the new tx_buffer is the old one without its first d bytes
\* followed by the bytes appended in the step.
C38_BufferIsStreamSuffix ==
    [][\A i \in 1..Len(sessions) :
          LET s == sessions[i] IN
          /\ s.bytes_sent_acked + Len(s.tx_buffer) = AppendedSoFar(s)
          /\ Has(sessions', s.session_id) =>
                LET t == SessionOf(sessions', s.session_id)
                    d == t.bytes_sent_acked - s.bytes_sent_acked
                    kept == Len(s.tx_buffer) - d
                IN  /\ 0 <= d /\ d <= Len(s.tx_buffer)
                    /\ Len(t.tx_buffer) >= kept
                    /\ \A k \in 1..kept : t.tx_buffer[k] = s.tx_buffer[d + k]
                    /\ Len(t.tx_buffer) - kept = AppendedSoFar(t) - AppendedSoFar(s)]_all_vars

\* C38 witness: the line "/" came back as two bytes, the first of them is
\* acknowledged, and a byte of the next line waits in rx_buffer.
C38_Witness ==
    /\ Has(sessions, 1)
    /\ SessionOf(sessions, 1).bytes_received = 3
    /\ SessionOf(sessions, 1).rx_buffer = <<"a">>
    /\ SessionOf(sessions, 1).bytes_sent_acked = 1
    /\ SessionOf(sessions, 1).tx_buffer = <<"\n">>

\* C39 terms.  Character i of an escaped payload introduces an escape; the
\* payload is well escaped when every introducer is followed by a backslash
\* or a slash and every slash follows an introducer; the bytes that the
\* characters lo..hi of a well escaped payload stand for.
Introducer(d, i) == d[i] = "\\" /\ BackslashesBefore(d, i) % 2 = 0
WellEscaped(d) ==
    \A i \in 1..Len(d) :
        /\ Introducer(d, i) => (i < Len(d) /\ d[i + 1] \in {"\\", "/"})
        /\ d[i] = "/" => (i > 1 /\ Introducer(d, i - 1))
RECURSIVE Decoded(_, _, _)
Decoded(d, lo, hi) ==
    IF lo > hi THEN <<>>
    ELSE IF lo = hi THEN <<d[lo]>>
    ELSE IF hi = lo + 1
    THEN IF Introducer(d, lo) THEN <<d[hi]>> ELSE <<d[lo], d[hi]>>
    ELSE LET mid == (lo + hi) \div 2 IN
         IF Introducer(d, mid)
         THEN Decoded(d, lo, mid - 1) \o Decoded(d, mid, hi)
         ELSE Decoded(d, lo, mid) \o Decoded(d, mid + 1, hi)

\* the session a datagram sent in a step belongs to: the session as the
\* step leaves it, or as the step found it when the step removed it
SenderOf(d) ==
    IF Has(sessions', d.sid) THEN SessionOf(sessions', d.sid)
    ELSE SessionOf(sessions, d.sid)

\* C39: every data packet sent in a step goes to the peer of a session of
\* its id, at a position p with bytes_sent_acked <= p < bytes_sent_acked +
\* len(tx_buffer); its payload is not empty, is well escaped and stands for
\* the bytes of tx_buffer from p on; a data packet that follows another of
\* the same session starts where that one ends; and a byte of tx_buffer
\* keeps its position in the stream for as long as it is in the buffer, so
\* that two packets that cover one position carry the same byte there.
C39_DataMatchesStream ==
    [][/\ \A i \in 1..Len(sessions) :
            Has(sessions', sessions[i].session_id) =>
               LET s == sessions[i]
                   t == SessionOf(sessions', s.session_id)
                   d == t.bytes_sent_acked - s.bytes_sent_acked
               IN  \A k \in (d + 1)..Len(s.tx_buffer) :
                      k - d <= Len(t.tx_buffer) /\ t.tx_buffer[k - d] = s.tx_buffer[k]
       /\ \A k \in 1..Len(out') :
          out'[k].cmd = "data" =>
             LET d == out'[k]
                 u == SenderOf(d)
                 off == d.num - u.bytes_sent_acked
                 raw == Decoded(d.data, 1, Len(d.data))
             IN  /\ Has(sessions', d.sid) \/ Has(sessions, d.sid)
                 /\ d.to = u.addr
                 /\ 0 <= off /\ off < Len(u.tx_buffer)
                 /\ d.data # <<>>
                 /\ WellEscaped(d.data)
                 /\ off + Len(raw) <= Len(u.tx_buffer)
                 /\ raw = [i \in 1..Len(raw) |-> u.tx_buffer[off + i]]
                 /\ \A h \in 1..(k - 1) :
                       ( /\ out'[h].cmd = "data" /\ out'[h].sid = d.sid
                         /\ \A m \in (h + 1)..(k - 1) :
                               ~(out'[m].cmd = "data" /\ out'[m].sid = d.sid) )
                       => d.num = out'[h].num + RawLen(out'[h].data)]_all_vars

\* C39 witness: a burst of two data packets for one session, the second
\* starting where the first ends, over a buffer of backslashes, slashes and
\* plain bytes of which some are acknowledged.
C39_Witness ==
    /\ Len(out) = 2
    /\ \A k \in 1..2 : out[k].cmd = "data"
    /\ out[1].num = 2147480000 + 494
    /\ out[2].num = out[1].num + RawLen(out[1].data)
    /\ \E i \in 1..Len(out[1].data) : Introducer(out[1].data, i) /\ out[1].data[i + 1] = "\\"
    /\ \E i \in 1..Len(out[1].data) : Introducer(out[1].data, i) /\ out[1].data[i + 1] = "/"

\* C40 terms: the ids of the sessions of a dict that have is_closed set
ClosedIn(ss) == {ss[i].session_id : i \in {k \in 1..Len(ss) : ss[k].is_closed}}

\* C40: when an iteration of the loop starts, no session of the dict has
\* is_closed set; and whatever datagram the iteration handles, every session
\* that the handler or the tick closes is out of the dict when the iteration
\* ends.
C40_NoClosedSessionInDict ==
    /\ ClosedIn(sessions) = {}
    /\ \A pkt \in Packets, addr \in Addrs :
          LET c == HandlePacket(Ctx, pkt, addr)
              e == TickSessions(c)
          IN  /\ ClosedIn(e.sessions) = {}
              /\ \A sid \in ClosedIn(c.sessions) : ~Has(e.sessions, sid)
              /\ \A i \in 1..Len(c.sessions) :
                    c.sessions[i].last_activity_age = 1 => ~Has(e.sessions, c.sessions[i].session_id)

\* C40 witness: an ack above what was sent has closed session 1, the tick
\* of the same iteration has still sent its pending bytes and has then
\* removed it; session 2 is the only one left in the dict.
C40_Witness ==
    /\ Len(sessions) = 1
    /\ sessions[1].session_id = 2
    /\ Len(out) = 2
    /\ out[1] = Datagram(out[1].to, "close", 1, 0, <<>>)
    /\ out[2].cmd = "data" /\ out[2].sid = 1

====
